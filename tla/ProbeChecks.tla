---------------------------- MODULE ProbeChecks ----------------------------
(***************************************************************************)
(* The checks of internal/lab/docker/probe (checks.go, proc.go): commands  *)
(* that make one check or, for battery, the whole survey, and the ones     *)
(* with steps of their own: initdir, fork, alloc and sleep.                *)
(*                                                                         *)
(* The kernel is external: it allows or refuses each call.                 *)
(***************************************************************************)
EXTENDS ProbeRun

CONSTANT MaxFork    \* bound: children asked for (1024 in the code)

VARIABLES
    todo,       \* checks the command has still to make
    left,       \* what failed clean-ups have left on the machine
    dir,        \* initdir's directory: its owner, whether it is setgid, and
                \* whether the process is in the group it will have
    children,   \* fork's children that are alive
    forked      \* how many it has started

checkVars == <<todo, left, dir, children, forked>>

OneLine(name) == {name}

\* The lines of each check.
cmdID == OneLine("identity")
cmdStatus == {"cap-eff", "no-new-privs", "seccomp"}
cmdPIDs == OneLine("pids")
cmdInterfaces == OneLine("interfaces")
checkUnshareUser == OneLine("unshare-user")
checkKeyctl == OneLine("keyctl")
checkCgroup == {"memory.max", "pids.max", "cpu.max"}

\* Mutant of cmdBattery: setuid first.
cmdBatterySetuidFirst ==
    <<"setuid", "id", "status", "pids", "interfaces", "write", "mount",
      "unshare-user", "keyctl", "cgroup">>

\* The survey, with setuid last.
cmdBattery ==
    <<"id", "status", "pids", "interfaces", "write", "mount", "unshare-user",
      "keyctl", "cgroup", "setuid">>

Checks == {cmdBattery[i] : i \in 1..Len(cmdBattery)}

ChecksInit ==
    /\ todo = IF cmd = "battery" THEN cmdBattery ELSE IF cmd \in Checks THEN <<cmd>> ELSE <<>>
    /\ left = {}
    /\ dir \in [owner : {Root}, setgid : {FALSE}, stage : {"none"},
               member : IF cmd = "initdir" THEN BOOLEAN ELSE {FALSE}]
    /\ children = 0 /\ forked = 0

-----------------------------------------------------------------------------
(* Checks *)

Making(check) ==
    /\ phase = "running" /\ todo # <<>> /\ Head(todo) = check
    /\ todo' = Tail(todo)
    /\ RunFrame /\ UNCHANGED <<dir, children, forked>>

\* A read, or a call that leaves nothing behind: each line goes its own way.
Reads(check, names) ==
    /\ Making(check)
    /\ \E ok \in [names -> BOOLEAN] : Report(ok)
    /\ UNCHANGED <<user, left>>

\* The file is created, written, closed and removed; a failed removal is not
\* reported.
checkWrite ==
    /\ Making("write")
    /\ \/ Deny("write") /\ UNCHANGED left
       \/ (Ok("write") \/ Deny("write")) /\ left' = left \cup {"file"}
       \/ Ok("write") /\ UNCHANGED left
    /\ UNCHANGED user

checkMount ==
    /\ Making("mount")
    /\ \/ Deny("mount") /\ UNCHANGED left
       \/ Ok("mount") /\ left' \in {left, left \cup {"mount"}}
    /\ UNCHANGED user

\* A process that may becomes root.
checkSetuid ==
    /\ Making("setuid")
    /\ \/ Ok("setuid") /\ user' = Root
       \/ Deny("setuid") /\ user # Root /\ UNCHANGED user
    /\ UNCHANGED left

MakeCheck ==
    \/ Reads("id", cmdID) \/ Reads("status", cmdStatus) \/ Reads("pids", cmdPIDs)
    \/ Reads("interfaces", cmdInterfaces) \/ checkWrite \/ checkMount
    \/ Reads("unshare-user", checkUnshareUser) \/ Reads("keyctl", checkKeyctl)
    \/ Reads("cgroup", checkCgroup) \/ checkSetuid

-----------------------------------------------------------------------------
(* initdir, fork, alloc and sleep *)

Running(c) == cmd = c /\ phase = "running"

\* chown gives the directory away; it may clear the setgid bit.
Chown ==
    /\ Running("initdir") /\ dir.stage = "none"
    /\ \/ /\ \E g \in {FALSE, dir.setgid} :
                dir' = [dir EXCEPT !.owner = Worker, !.setgid = g, !.stage = "chowned"]
          /\ RunSilent
       \/ dir' = [dir EXCEPT !.stage = "done"] /\ Deny("initdir") /\ RunFrame /\ UNCHANGED user
    /\ UNCHANGED <<todo, left, children, forked>>

\* chmod 2750 comes last; the new owner's directory may refuse it.  For a
\* process outside the group, without CAP_FSETID, it succeeds with the setgid
\* bit cleared, and the line is OK all the same.
Chmod ==
    /\ Running("initdir") /\ dir.stage = "chowned"
    /\ \/ dir' = [dir EXCEPT !.setgid = dir.member, !.stage = "done"] /\ Ok("initdir")
       \/ dir' = [dir EXCEPT !.stage = "done"] /\ Deny("initdir")
    /\ RunFrame /\ UNCHANGED <<user, todo, left, children, forked>>

\* Children are started until there are n or one fails; then all of them are
\* killed and waited for, and the command reports.
StartChild ==
    /\ Running("fork") /\ "fork" \notin {l[1] : l \in lines} /\ forked < MaxFork
    /\ children' = children + 1 /\ forked' = forked + 1
    /\ RunSilent /\ UNCHANGED <<todo, left, dir>>

StopChildren ==
    /\ Running("fork") /\ "fork" \notin {l[1] : l \in lines}
    /\ children' = 0
    /\ Report([n \in {"fork-started", "fork"} |-> n = "fork" => forked = MaxFork])
    /\ RunFrame /\ UNCHANGED <<user, todo, left, dir, forked>>

\* The pages are touched and reported, or the memory limit kills the process.
Alloc ==
    /\ Running("alloc") /\ lines = {}
    /\ \/ Ok("alloc") /\ UNCHANGED <<phase, status>>
       \/ phase' = "killed" /\ status' = 137 /\ UNCHANGED <<lines, denied>>
    /\ UNCHANGED <<cmd, marker, user, started, term, checkVars>>

\* It announces itself, then ends on SIGTERM unless told to ignore it, or when
\* its time is over.
Sleep ==
    /\ Running("sleep")
    /\ \/ lines = {} /\ Ok("sleep")
       \/ /\ lines # {} /\ "signal" \notin {l[1] : l \in lines}
          /\ term /\ Ok("signal")
    /\ RunFrame /\ UNCHANGED <<user, checkVars>>

\* The function has made its last report.
ChecksDone ==
    CASE cmd = "initdir" -> dir.stage = "done"
      [] cmd = "fork" -> "fork" \in {l[1] : l \in lines}
      [] cmd \in {"alloc", "sleep"} -> lines # {}
      [] cmd \in Checks \cup {"battery"} -> todo = <<>>
      [] OTHER -> FALSE

ChecksReturn == ChecksDone /\ Return /\ UNCHANGED checkVars

ChecksNext ==
    \/ MakeCheck \/ Chown \/ Chmod \/ StartChild \/ StopChildren \/ Alloc
    \/ Sleep \/ ChecksReturn

-----------------------------------------------------------------------------
(* Properties *)

\* A report is true.  Every line of a survey was answered for the user the
\* container was started with; initdir's OK means the directory has its owner
\* and, where the process was in its group (as SocketVolume's is), its setgid
\* bit, which chown may have cleared; fork reports after the last child is gone.
\* The exit status says whether a line was denied, and a command that was
\* refused has left nothing behind.
ReportIsTrue ==
    /\ \A l \in lines : l[3] = started
    /\ <<"initdir", TRUE, started>> \in lines =>
            dir.owner = Worker /\ (dir.member => dir.setgid)
    /\ phase = "exited" =>
        /\ children = 0
        /\ status = 0 => cmd = "battery" \/ \A l \in lines : l[2]
        /\ status = 1 => \E l \in lines : ~l[2]
        /\ ~marker /\ cmd \in Mutates => lines = {} /\ left = {} /\ status = 3
=============================================================================
