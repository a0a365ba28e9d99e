------------------------------ MODULE Builder -------------------------------
(***************************************************************************)
(* The builder script's commands that prepare a developer's machine        *)
(* (builder, scripts/devfs.sh, scripts/toolchain.sh): setup-dev and        *)
(* destroy-devfs for the development file system, and the toolchain that a *)
(* build pulls first.  They run under "set -e", may be broken off anywhere *)
(* and are simply run again; what they find is all they know of the runs   *)
(* before.                                                                 *)
(*                                                                         *)
(* Outside are tar, which unpacks in any order and fails at the end of an  *)
(* archive that is not whole, wget and curl, and mount and umount.  One    *)
(* command runs at a time.  The user that setup-dev registers in the file  *)
(* system is left out, and so is the build after the toolchain is found.   *)
(***************************************************************************)
EXTENDS Integers, Sequences

Package == {"devfs", "toolchain"}

\* What is in a package; "dir" stands for the directory itself.
Files == [devfs |-> {"shadow", "rest"}, toolchain |-> {"bin", "lib"}]

\* Where setup-dev mounts the project, read-only, a tmpfs and the devices.
Trees == <<"serene", "tmp", "dev">>

Mountpoints == {Trees[i] : i \in DOMAIN Trees}

VARIABLES
  archive,   \* per package the downloaded file: "none", "part" or "whole"
  tree,      \* per package what is there of it
  mounts,    \* how often something is mounted at a mount point
  devices,   \* does the machine still have all its devices
  pc, pkg,   \* where the command is that runs, and with which package
  todo,      \* the mount points it has still to visit
  unpacked,  \* the files that its tar has written
  torn,      \* history: packages whose last unpacking or removal was broken off
  busy       \* history: the mounts that this destroy-devfs could not unmount

machine == <<archive, tree, mounts, devices>>
vars    == <<machine, pc, pkg, todo, unpacked, torn, busy>>

(***************************************************************************)
(* Fetching and unpacking.                                                 *)
(***************************************************************************)

has(p) == IF p = "devfs" THEN "shadow" \in tree[p] ELSE "dir" \in tree[p]

setup_dev ==
  /\ pc = "idle"
  /\ pkg' = "devfs"
  /\ pc' = IF has("devfs") THEN "mount" ELSE "fetch"
  /\ todo' = Trees
  /\ UNCHANGED <<machine, unpacked, torn, busy>>

setup_toolchain ==
  /\ pc = "idle"
  /\ pkg' = "toolchain"
  /\ pc' = "fetch"
  /\ UNCHANGED <<machine, todo, unpacked, torn, busy>>

\* Only the toolchain can be there when this is asked.
afterFetch == IF has(pkg) THEN "ready" ELSE "unpack"

\* Not fetched again if the file is there; it is there from the first byte.
download ==
  /\ pc = "fetch"
  /\ IF archive[pkg] = "none"
     THEN archive' = [archive EXCEPT ![pkg] = "part"] /\ pc' = "download"
     ELSE pc' = afterFetch /\ UNCHANGED archive
  /\ UNCHANGED <<tree, mounts, devices, pkg, todo, unpacked, torn, busy>>

downloaded ==
  /\ pc = "download"
  /\ archive' = [archive EXCEPT ![pkg] = "whole"]
  /\ pc' = afterFetch
  /\ UNCHANGED <<tree, mounts, devices, pkg, todo, unpacked, torn, busy>>

unpack ==
  /\ pc = "unpack"
  /\ tree' = [tree EXCEPT ![pkg] = @ \cup {"dir"}]
  /\ pc' = "tar" /\ unpacked' = {}
  /\ UNCHANGED <<archive, mounts, devices, pkg, todo, torn, busy>>

\* An archive that is not whole gives some of the files.
untar ==
  /\ pc = "tar"
  /\ \E f \in Files[pkg] \ unpacked :
       /\ archive[pkg] = "whole" \/ unpacked \cup {f} # Files[pkg]
       /\ tree' = [tree EXCEPT ![pkg] = @ \cup {f}]
       /\ unpacked' = unpacked \cup {f}
  /\ UNCHANGED <<archive, mounts, devices, pc, pkg, todo, torn, busy>>

untarred ==
  /\ pc = "tar" /\ unpacked = Files[pkg]
  /\ pc' = IF pkg = "devfs" THEN "mount" ELSE "ready"
  /\ torn' = torn \ {pkg}
  /\ UNCHANGED <<machine, pkg, todo, unpacked, busy>>

(***************************************************************************)
(* Mounting and unmounting.                                                *)
(***************************************************************************)

mount_trees_Unguarded ==
  /\ pc = "mount" /\ todo # <<>>
  /\ mounts' = [mounts EXCEPT ![Head(todo)] = @ + 1]
  /\ todo' = Tail(todo)
  /\ UNCHANGED <<archive, tree, devices, pc, pkg, unpacked, torn, busy>>

\* What is a mount point already is not mounted again.
mount_trees ==
  /\ pc = "mount" /\ todo # <<>>
  /\ mounts' = [mounts EXCEPT ![Head(todo)] = IF @ = 0 THEN 1 ELSE @]
  /\ todo' = Tail(todo)
  /\ UNCHANGED <<archive, tree, devices, pc, pkg, unpacked, torn, busy>>

mounted ==
  /\ pc = "mount" /\ todo = <<>>
  /\ pc' = "ready"
  /\ UNCHANGED <<machine, pkg, todo, unpacked, torn, busy>>

finished ==
  /\ pc = "ready"
  /\ pc' = "idle"
  /\ UNCHANGED <<machine, pkg, todo, unpacked, torn, busy>>

destroy_devfs_LeavesDev ==
  /\ pc = "idle"
  /\ pkg' = "devfs" /\ pc' = "unmount"
  /\ todo' = <<"serene", "tmp">> /\ busy' = {}
  /\ UNCHANGED <<machine, unpacked, torn>>

\* The first question is answered with yes.
destroy_devfs ==
  /\ pc = "idle"
  /\ pkg' = "devfs" /\ pc' = "unmount"
  /\ todo' = Trees /\ busy' = {}
  /\ UNCHANGED <<machine, unpacked, torn>>

\* umount takes off one mount; when it fails, nobody hears of it.
unmount_trees ==
  /\ pc = "unmount" /\ todo # <<>>
  /\ LET t == Head(todo)
     IN \/ mounts[t] > 0 /\ mounts' = [mounts EXCEPT ![t] = @ - 1] /\ UNCHANGED busy
        \/ mounts[t] > 0 /\ busy' = busy \cup {t} /\ UNCHANGED mounts
        \/ mounts[t] = 0 /\ UNCHANGED <<mounts, busy>>
  /\ todo' = Tail(todo)
  /\ UNCHANGED <<archive, tree, devices, pc, pkg, unpacked, torn>>

\* Only now comes the question whether the tree may be removed.
confirm ==
  /\ pc = "unmount" /\ todo = <<>>
  /\ pc' \in {"remove", "idle"}
  /\ UNCHANGED <<machine, pkg, todo, unpacked, torn, busy>>

\* rm -rf goes wherever it can.
remove ==
  /\ pc = "remove"
  /\ \/ \E f \in tree["devfs"] \ {"dir"} :
          tree' = [tree EXCEPT !["devfs"] = @ \ {f}] /\ UNCHANGED devices
     \/ mounts["dev"] > 0 /\ devices /\ devices' = FALSE /\ UNCHANGED tree
  /\ UNCHANGED <<archive, mounts, pc, pkg, todo, unpacked, torn, busy>>

\* The directory stays while something is mounted in it.
removed ==
  /\ pc = "remove"
  /\ tree["devfs"] \subseteq {"dir"} /\ (mounts["dev"] = 0 \/ ~devices)
  /\ tree' = IF \A t \in Mountpoints : mounts[t] = 0
             THEN [tree EXCEPT !["devfs"] = {}] ELSE tree
  /\ pc' = "idle" /\ torn' = torn \ {"devfs"}
  /\ UNCHANGED <<archive, mounts, devices, pkg, todo, unpacked, busy>>

(***************************************************************************)
(* What happens to a command.                                              *)
(***************************************************************************)

tears == IF pc \in {"tar", "remove"} THEN torn \cup {pkg} ELSE torn

\* A step of it fails, which ends it, or it is interrupted.
breakOff ==
  /\ pc # "idle"
  /\ pc' = "idle" /\ torn' = tears
  /\ UNCHANGED <<machine, pkg, todo, unpacked, busy>>

\* Mounts do not survive it; the system makes the devices anew.
reboot ==
  /\ pc' = "idle" /\ torn' = tears
  /\ mounts' = [t \in Mountpoints |-> 0] /\ devices' = TRUE
  /\ UNCHANGED <<archive, tree, pkg, todo, unpacked, busy>>

(***************************************************************************)
(* The specification.                                                      *)
(***************************************************************************)

Init ==
  /\ archive = [p \in Package |-> "none"] /\ tree = [p \in Package |-> {}]
  /\ mounts = [t \in Mountpoints |-> 0] /\ devices = TRUE
  /\ pc = "idle" /\ pkg = "devfs" /\ todo = <<>> /\ unpacked = {}
  /\ torn = {} /\ busy = {}

Next ==
  \/ setup_dev \/ setup_toolchain
  \/ download \/ downloaded \/ unpack \/ untar \/ untarred
  \/ mount_trees \/ mounted \/ finished
  \/ destroy_devfs \/ unmount_trees \/ confirm \/ remove \/ removed
  \/ breakOff \/ reboot

Spec == Init /\ [][Next]_vars

(***************************************************************************)
(* Properties.                                                             *)
(***************************************************************************)

\* What setup-dev calls finished, and the toolchain that the build goes on
\* with, is whole and, for the file system, mounted exactly once, whichever
\* commands were broken off before -- unless the last unpacking or removal was:
\* one file, or the directory alone, is taken for the whole.
ReadyMeansWhole ==
  pc = "ready" =>
    /\ Files[pkg] \subseteq tree[pkg] \/ pkg \in torn
    /\ pkg = "devfs" => \A t \in Mountpoints : mounts[t] = 1

\* Removing the file system takes the machine's devices with it only if umount
\* has failed on them in this very run, which the script does not notice; that
\* the mounts were made by several runs, or that a run was broken off between,
\* never causes it.
DevicesKept == [][devices' \/ ~devices \/ "dev" \in busy]_vars
=============================================================================
