------------------------------ MODULE Lockstep ------------------------------
(***************************************************************************)
(* The clients of the reference emulator: HookDriver, which records the    *)
(* commits of a run and compares a later run with them                     *)
(* (bench/pyboy/hook_driver.py), the window cut around a divergence        *)
(* (checkpoints.py), and run_lockstep, which steps a device under test     *)
(* beside the oracle and stops at the first commit whose fields differ     *)
(* (lockstep_driver.py, comparator.py).  One call runs at a time, so a     *)
(* call is a task and each commit it takes is a step.                      *)
(*                                                                         *)
(* The device is external: of each compared field a trace shows the value  *)
(* it should have, another value, or nothing.                              *)
(***************************************************************************)
EXTENDS Oracle

CONSTANTS
    compare_fields,  \* the scope of a lockstep run
    DutTraces,       \* traces of the device: field -> "same", "other" or "unavailable"
    commit_limit,    \* commits a lockstep run compares
    CollectLimit,    \* commits a recording takes at most
    window_radius,   \* commits shown on each side of a divergence
    MaxCalls         \* bound: calls a client makes

ASSUME LockstepAssumption == window_radius \in Nat

VARIABLES
    task,      \* the call in progress
    origin,    \* the set-up the oracle's state is still exactly at, or "moved"
    recorded,  \* the commits recorded last, with the origin of their run
    verdict,   \* the result of the last call
    calls      \* calls made so far

lockstepVars == <<oracleVars, task, origin, recorded, verdict, calls>>

Idle == [kind |-> "idle"]
NoRecord == [origin |-> "none", commits |-> <<>>]
NoVerdict == [kind |-> "none"]

(****************************** the comparator ****************************)

\* Of the correct trace "same": checkpoint commits have no IME, HALT or I/O.
OracleShows(field) ==
    IF field \in {"registers", "checkpoint_tag", "bus_req", "bus_resp"}
    THEN "same" ELSE "unavailable"

\* A slip: a field one side does not have is not compared.
CompareAvailable(trace) ==
    {field \in compare_fields :
        /\ trace[field] # OracleShows(field)
        /\ "unavailable" \notin {trace[field], OracleShows(field)}}

\* The fields that differ; a field only one side has differs too.
compare_commit(trace) == {field \in compare_fields : trace[field] # OracleShows(field)}

(******************************* the window *******************************)

\* build_divergence_artifacts: the commits around the mismatch at `at`, with
\* what the run had where it got that far.
CommitWindow(expected, commits, at) ==
    LET first == IF at > window_radius THEN at - window_radius ELSE 1
        last == IF at + window_radius < Len(expected) THEN at + window_radius ELSE Len(expected)
    IN  [index \in first .. last |->
            [expected |-> expected[index],
             actual |-> IF index <= Len(commits) THEN <<commits[index]>> ELSE <<>>]]

(****************************** setting it up *****************************)

\* The client makes a call when the last one has returned.
Calls == task = Idle /\ calls < MaxCalls /\ calls' = calls + 1 /\ verdict' = NoVerdict

Reset(model, profile) ==
    /\ Calls
    /\ reset(model, profile)
    /\ origin' = IF ResetFails(model, profile) THEN "moved" ELSE profile
    /\ UNCHANGED <<task, recorded>>

Close ==
    /\ Calls /\ emulator # Off
    /\ close
    /\ origin' = "moved"
    /\ UNCHANGED <<task, recorded>>

\* A recording from the snapshot this one replaces is of no more use.
Snapshot ==
    /\ Calls
    /\ snapshot
    /\ origin' = IF emulator.hooked THEN "saved" ELSE "moved"
    /\ recorded' = IF recorded.origin = "saved" THEN NoRecord ELSE recorded
    /\ UNCHANGED task

Restore ==
    /\ Calls
    /\ restore
    /\ origin' = IF emulator.hooked /\ saved.emulator.hooked THEN "saved" ELSE "moved"
    /\ UNCHANGED <<task, recorded>>

WriteEvent ==
    /\ Calls /\ emulator # Off /\ Len(emulator.events) < 2
    /\ \/ \E target \in SUBSET HeldButtons : write_buttons(target)
       \/ \E flags \in SUBSET FlagValues : write_flags(flags)
    /\ origin' = "moved"
    /\ UNCHANGED <<task, recorded>>

(****************************** the hook driver ***************************)

StartCollect ==
    /\ Calls /\ emulator # Off /\ ManifestBuilds
    /\ task' = [kind |-> "collect", origin |-> origin, commits |-> <<>>]
    /\ UNCHANGED <<oracleVars, origin, recorded>>

\* collect_commits: up to the limit or a terminal commit; a timeout raises.
CollectCommit ==
    /\ task.kind = "collect"
    /\ step_commit
    /\ UNCHANGED calls
    /\ origin' = "moved"
    /\ LET commits == Append(task.commits, Head(Stepped.commits))
           done == Len(commits) = CollectLimit \/ is_terminal(commits[Len(commits)])
       IN  IF TimedOut
           THEN task' = Idle /\ verdict' = [kind |-> "timeout", same |-> FALSE] /\ UNCHANGED recorded
           ELSE /\ task' = IF done THEN Idle ELSE [task EXCEPT !.commits = commits]
                /\ recorded' = IF done THEN [origin |-> task.origin, commits |-> commits]
                               ELSE recorded
                /\ UNCHANGED verdict

\* The recording may be changed before it is compared, as a test does to see
\* a divergence reported; `altered` is the commit changed, 0 for none.
StartCompare ==
    /\ Calls /\ emulator # Off /\ recorded # NoRecord
    /\ \E altered \in 0 .. Len(recorded.commits) :
        task' = [kind |-> "compare", commits |-> <<>>,
                 same |-> altered = 0 /\ origin # "moved" /\ origin = recorded.origin,
                 expected |-> [i \in DOMAIN recorded.commits |->
                                 IF i = altered THEN [recorded.commits[i] EXCEPT !.seq = -1]
                                 ELSE recorded.commits[i]]]
    /\ recorded' = NoRecord
    /\ UNCHANGED <<oracleVars, origin>>

\* compare_commits: stops at the first commit that differs, at a terminal
\* commit, or when nothing more is expected.
CompareCommit ==
    /\ task.kind = "compare"
    /\ step_commit
    /\ UNCHANGED calls
    /\ origin' = "moved"
    /\ UNCHANGED recorded
    /\ LET commits == Append(task.commits, Head(Stepped.commits))
           at == Len(commits)
           differs == commits[at] # task.expected[at]
           result == [kind |-> "replay", matched |-> ~differs, same |-> task.same,
                      commits |-> commits, expected |-> task.expected,
                      window |-> IF differs THEN CommitWindow(task.expected, commits, at) ELSE <<>>]
       IN  IF TimedOut
           THEN task' = Idle /\ verdict' = [kind |-> "timeout", same |-> task.same]
           ELSE IF differs \/ is_terminal(commits[at]) \/ at = Len(task.expected)
                THEN task' = Idle /\ verdict' = result
                ELSE task' = [task EXCEPT !.commits = commits] /\ UNCHANGED verdict

(******************************* run_lockstep *****************************)

StartLockstep ==
    /\ Calls /\ emulator # Off
    /\ task' = [kind |-> "lockstep", wrote |-> FALSE, steps |-> <<>>]
    /\ UNCHANGED <<oracleVars, origin, recorded>>

\* The events of a commit go to the oracle one by one; one that the oracle or
\* the device cannot take ends the run with those before it written.
LockstepEvent ==
    /\ task.kind = "lockstep" /\ ~task.wrote
    /\ Len(emulator.events) < 2
    /\ \/ \E target \in SUBSET HeldButtons : write_buttons(target)
       \/ \E flags \in SUBSET FlagValues : write_flags(flags)
    /\ UNCHANGED calls
    /\ origin' = "moved"
    /\ task' \in {[task EXCEPT !.wrote = TRUE], Idle}
    /\ UNCHANGED <<recorded, verdict>>

LockstepCommit ==
    /\ task.kind = "lockstep"
    /\ step_commit
    /\ UNCHANGED calls
    /\ origin' = "moved"
    /\ UNCHANGED recorded
    /\ \E trace \in DutTraces :
        LET commit == Head(Stepped.commits)
            diffs == compare_commit(trace)
            steps == Append(task.steps, [trace |-> trace, commit |-> commit, diffs |-> diffs])
        IN  IF TimedOut
            THEN task' = Idle /\ verdict' = [kind |-> "timeout", same |-> FALSE]
            ELSE IF diffs # {} \/ Len(steps) = commit_limit
                 THEN /\ task' = Idle
                      /\ verdict' = [kind |-> "lockstep", matched |-> diffs = {}, steps |-> steps]
                 ELSE task' = [task EXCEPT !.steps = steps, !.wrote = FALSE] /\ UNCHANGED verdict

(****************************** specification *****************************)

LockstepInit ==
    /\ OracleInit
    /\ task = Idle
    /\ origin = "moved"
    /\ recorded = NoRecord
    /\ verdict = NoVerdict
    /\ calls = 0

LockstepNext ==
    \/ \E model \in {"DMG", "CGB"}, profile \in {"SkipBoot", "RawPowerOn"} : Reset(model, profile)
    \/ Close \/ Snapshot \/ Restore \/ WriteEvent
    \/ StartCollect \/ CollectCommit
    \/ StartCompare \/ CompareCommit
    \/ StartLockstep \/ LockstepEvent \/ LockstepCommit

LockstepSpec == LockstepInit /\ [][LockstepNext]_lockstepVars

(******************************* properties *******************************)

\* A recording replayed from the same reset or the same snapshot matches, and
\* does not time out, whatever the client did in between.
ReplayMatches ==
    verdict.kind \in {"replay", "timeout"} /\ verdict.same =>
        verdict.kind = "replay" /\ verdict.matched

\* Each field of a step agrees for a reason: both sides have it with the same
\* value, or neither has it.
FieldAgrees(step, field) ==
    \/ step.trace[field] = "same" /\ OracleShows(field) = "same"
    \/ step.trace[field] = "unavailable" /\ OracleShows(field) = "unavailable"

StepAgrees(step) == \A field \in compare_fields : FieldAgrees(step, field)

\* A result names the first divergence and nothing else: all commits before
\* it agree, they follow one another without a gap, a run that is said to
\* match agrees to its end, and the window of a mismatch shows that commit and
\* nothing the run had not reached.
VerdictIsFirstDivergence ==
    /\ verdict.kind = "lockstep" =>
        LET steps == verdict.steps
            last == Len(steps)
        IN  /\ \A i \in 1 .. last - 1 : StepAgrees(steps[i])
            /\ \A i \in 1 .. last : steps[i].commit.seq = steps[1].commit.seq + i - 1
            /\ verdict.matched <=> StepAgrees(steps[last])
            /\ verdict.matched => last = commit_limit
    /\ verdict.kind = "replay" =>
        LET commits == verdict.commits
            last == Len(commits)
        IN  /\ \A i \in 1 .. last - 1 : commits[i] = verdict.expected[i]
            /\ verdict.matched <=> commits[last] = verdict.expected[last]
            /\ verdict.matched =>
                last = Len(verdict.expected) \/ is_terminal(commits[last])
            /\ ~verdict.matched =>
                /\ last \in DOMAIN verdict.window
                /\ \A i \in DOMAIN verdict.window :
                    verdict.window[i].actual = IF i <= last THEN <<commits[i]>> ELSE <<>>

=============================================================================
