--------------------------------- MODULE Fs ---------------------------------
(***************************************************************************)
(* The fs module (modules/fs.cpp).  The runner builds its list of mounts   *)
(* anew in each update, under the lock of updates; the worker walks        *)
(* through the same list when it draws, under the lock of builds.          *)
(*                                                                         *)
(* The system (external): what is mounted, and of what size.               *)
(***************************************************************************)
EXTENDS Integers, Sequences, SequencesExt, FiniteSetsExt

CONSTANTS Mountpoints, \* as configured, in order
          Sizes,       \* [blocks, bfree, bavail] of a file system
          Warn,        \* warn-percentage
          MaxOps       \* bound on mounts and unmounts

VARIABLES
  remove_unmounted,
  mounted, size,     \* path -> size, of the paths that are mounted
  runner,            \* "read", "query", "remove", "broadcast", "sleep"
  warm,              \* the update before the loop is done
  mountinfo,         \* what the running update has read
  m_mountpoints, m_mounts,
  main, m_index, output,  \* "idle", "draw"; the drawing
  m_changed, shown, undefined,
  crossed, removed, ops   \* history: an update has been at work since the
                          \* drawing began; what update() gave up; bound

vars == <<remove_unmounted, mounted, size, runner, warm, mountinfo, m_mountpoints, m_mounts,
          main, m_index, output, m_changed, shown, undefined, crossed, removed, ops>>
system == <<mounted, size>>
drawing == <<main, m_index, output, shown, undefined>>

(* The share of what a user may have, of that and of what is used.         *)
Percentage(value, max) == (200 * value + max) \div (2 * max)
Used(s) == s.blocks - s.bfree
PercentageUsed(s) == Percentage(Used(s), Used(s) + s.bavail)
PercentageFree(s) == Percentage(s.bavail, Used(s) + s.bavail)

Format(mount) ==
  IF ~mount.mounted THEN "unmounted" ELSE IF mount.used >= Warn THEN "warn" ELSE "mounted"

TypeOK ==
  /\ mounted \subseteq Range(Mountpoints) /\ mountinfo \subseteq Range(Mountpoints)
  /\ runner \in {"read", "query", "remove", "broadcast", "sleep"} /\ main \in {"idle", "draw"}
  /\ Len(m_mounts) <= Len(m_mountpoints) /\ m_index \in 1 .. Len(Mountpoints) + 1

Init ==
  /\ remove_unmounted \in BOOLEAN
  /\ mounted \in SUBSET Range(Mountpoints)
  /\ \E s \in Sizes : size = [path \in Range(Mountpoints) |-> s]
  /\ runner = "read" /\ warm = FALSE /\ mountinfo = {} /\ m_mountpoints = Mountpoints /\ m_mounts = <<>>
  /\ main = "idle" /\ m_index = 1 /\ output = <<>> /\ m_changed = FALSE /\ shown = <<>>
  /\ undefined = FALSE /\ crossed = FALSE /\ removed = {} /\ ops = 0

-----------------------------------------------------------------------------
(* update(): the list is cleared and mountinfo read; one mount point after *)
(* the other is queried - it may be gone by then, and is shown as mounted  *)
(* and empty; at last those that were not there are given up.              *)
ReadMounts ==
  /\ runner = "read" /\ m_mounts' = <<>> /\ mountinfo' = mounted \cap Range(m_mountpoints)
  /\ runner' = IF m_mountpoints = <<>> THEN "remove" ELSE "query"
  /\ crossed' = TRUE
  /\ UNCHANGED <<remove_unmounted, system, warm, m_mountpoints, drawing, m_changed, removed, ops>>

Queried(path) ==
  IF path \in mountinfo /\ path \in mounted
  THEN [path |-> path, mounted |-> TRUE, used |-> PercentageUsed(size[path]), free |-> PercentageFree(size[path])]
  ELSE [path |-> path, mounted |-> path \in mountinfo, used |-> 0, free |-> 0]
Query ==
  /\ runner = "query" /\ m_mounts' = Append(m_mounts, Queried(m_mountpoints[Len(m_mounts) + 1]))
  /\ runner' = IF Len(m_mounts') = Len(m_mountpoints) THEN "remove" ELSE "query"
  /\ crossed' = TRUE
  /\ UNCHANGED <<remove_unmounted, system, warm, mountinfo, m_mountpoints, drawing, m_changed, removed, ops>>

IsMounted(mount) == mount.mounted
RemoveUnmounted ==
  /\ runner = "remove" /\ runner' = "broadcast" /\ crossed' = TRUE
  /\ IF remove_unmounted
     THEN LET gone == {m.path : m \in {n \in Range(m_mounts) : ~n.mounted}}
              Stays(path) == path \notin gone
          IN /\ m_mounts' = SelectSeq(m_mounts, IsMounted)
             /\ m_mountpoints' = SelectSeq(m_mountpoints, Stays) /\ removed' = removed \cup gone
     ELSE UNCHANGED <<m_mounts, m_mountpoints, removed>>
  /\ UNCHANGED <<remove_unmounted, system, warm, mountinfo, drawing, m_changed, ops>>

(* The first broadcast is followed by an update at once.                   *)
Broadcast ==
  /\ runner = "broadcast" /\ m_changed' = TRUE /\ warm' = TRUE
  /\ runner' = IF warm THEN "sleep" ELSE "read"
  /\ UNCHANGED <<remove_unmounted, system, mountinfo, m_mountpoints, m_mounts, drawing, crossed, removed, ops>>
Wake ==
  /\ runner = "sleep" /\ runner' = "read"
  /\ UNCHANGED <<remove_unmounted, system, warm, mountinfo, m_mountpoints, m_mounts, drawing, m_changed, crossed, removed, ops>>

(* get_output(), mount by mount: the size of the list is looked at, then   *)
(* the mount; nothing keeps the list until then.                           *)
Draw ==
  /\ main = "idle" /\ m_changed /\ main' = "draw" /\ m_index' = 1 /\ output' = <<>>
  /\ crossed' = (runner \in {"query", "remove"})
  /\ UNCHANGED <<remove_unmounted, system, runner, warm, mountinfo, m_mountpoints, m_mounts, m_changed, shown, undefined, removed, ops>>

Drawn(mount) == [path |-> mount.path, format |-> Format(mount), used |-> mount.used, free |-> mount.free]
GetOutput ==
  /\ main = "draw"
  /\ IF m_index <= Len(m_mounts)
     THEN /\ m_index' = m_index + 1 /\ output' = Append(output, Drawn(m_mounts[m_index]))
          /\ UNCHANGED <<main, m_changed, shown, undefined>>
     ELSE /\ main' = "idle" /\ m_changed' = FALSE /\ shown' = output
          /\ undefined' = crossed /\ UNCHANGED <<m_index, output>>
  /\ UNCHANGED <<remove_unmounted, system, runner, warm, mountinfo, m_mountpoints, m_mounts, crossed, removed, ops>>

System ==
  /\ ops < MaxOps /\ ops' = ops + 1
  /\ \E path \in Range(Mountpoints) : mounted' = (mounted \cup {path}) \ (mounted \cap {path})
  /\ UNCHANGED <<remove_unmounted, size, runner, warm, mountinfo, m_mountpoints, m_mounts, drawing, m_changed, crossed, removed>>

Next == ReadMounts \/ Query \/ RemoveUnmounted \/ Broadcast \/ Wake \/ Draw \/ GetOutput \/ System
Spec == Init /\ [][Next]_vars

-----------------------------------------------------------------------------
(* A drawing that no update has crossed shows the mounts that the last     *)
(* update found, in the order of the configuration.                        *)
DrawnAsFound ==
  main = "idle" /\ ~m_changed /\ ~undefined /\ shown # <<>> /\ runner = "sleep" =>
    shown = [i \in DOMAIN m_mounts |-> Drawn(m_mounts[i])]

(* Mounts are shown in the order of the configuration, each once; what has *)
(* been given up does not come back, and nothing else is left out.         *)
OrderKept ==
  runner = "sleep" =>
    LET Kept(path) == path \notin removed
    IN [i \in DOMAIN m_mounts |-> m_mounts[i].path] = SelectSeq(Mountpoints, Kept)

(* Used and free of a file system with blocks for root alone.              *)
SharesSum ==
  \A s \in Sizes : PercentageUsed(s) + PercentageFree(s) \in 100 .. 101
=============================================================================
