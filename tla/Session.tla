------------------------------ MODULE Session ------------------------------
(* The one session at BigSeller, and who holds a copy of it: the worker's    *)
(* long-lived client (sync.rs, WorkerState), the session file (session.rs),  *)
(* the row of bs_sessions (accounts.rs), the tasks that read the file for    *)
(* a few calls (ondemand.rs, pack.rs), and `orders login`, run by a person   *)
(* (main.rs). BigSeller accepts one login at a time: the next one, here or   *)
(* in a browser, ends it; and any answer may bring its client a new jar.     *)
(*                                                                           *)
(* A cookie jar is a number, in the order BigSeller issued them; it accepts  *)
(* those from `base` on, 0 is the client without cookies.                    *)
EXTENDS Integers, FiniteSets

CONSTANTS
    Attempts,    \* captchas a login tries (login_attempts)
    MaxTasks,    \* bound: tasks at a time
    MaxRotations, \* bound: jars BigSeller replaces in its answers
    MaxSpent     \* bound: those, sessions ended elsewhere, failures, crashes

ASSUME SessionAssumption ==
    /\ Attempts \in Nat \ {0}
    /\ MaxTasks \in Nat /\ MaxSpent \in Nat /\ MaxRotations \in Nat

VARIABLES
    auto,         \* AUTO_RELOGIN
    issued, base, \* BigSeller: the last jar issued, the oldest one accepted
    file,         \* the session file; Empty when missing or half written
    row,          \* bs_sessions.cookies
    at,           \* what each process does next; an on-demand run that is not
                  \* idle is SyncProgress.running
    jar,          \* the cookies of each client
    out,          \* the session a login or a snapshot has in hand
    proved,       \* `base` when BigSeller last accepted that session
    tries,        \* captchas tried in this login
    back,         \* what the worker logged in for, or saves for
    job, retried, \* the pull of the worker; it logged in for it already
    logins,       \* logins of the worker
    robbed,       \* jars BigSeller stopped accepting while the worker held them
    spent, rotations

bigseller == <<issued, base>>
copies == <<file, row>>
login == <<out, proved, tries>>
turn == <<back, job, retried>>
counts == <<logins, robbed, spent, rotations>>
moving == <<bigseller, copies, at, jar, login, turn, counts>>
vars == <<auto, moving>>

Loggers == {"worker", "cli"}
\* "sync" is the on-demand run, and stands for whatever else reads the file for
\* calls of its own: the labels, the CLI, the refresh after a packing.
Tasks == {"sync", "pack"}
Clients == {"worker"} \cup Tasks
Processes == Loggers \cup Tasks
Jars == 0 .. issued
Empty == 0

TypeOK ==
    /\ auto \in BOOLEAN
    /\ issued \in Nat /\ base \in 1 .. issued + 1
    /\ file \in Jars /\ row \in Jars
    /\ at \in [Processes -> {"off", "idle", "probe", "login", "pull", "persist", "write",
                             "fill", "copy", "record", "again"}]
    /\ jar \in [Clients -> Jars]
    /\ out \in [Loggers -> Jars] /\ proved \in [Loggers -> 0 .. issued + 1]
    /\ tries \in [Loggers -> 0 .. Attempts]
    /\ back \in {"probe", "pull", "persist"}
    /\ job \in {"new", "reconcile", "processing", "shipped", "cancel"} /\ retried \in BOOLEAN
    /\ logins \in Nat /\ robbed \in Nat /\ spent \in 0 .. MaxSpent /\ rotations \in 0 .. MaxRotations

Init ==
    /\ auto \in BOOLEAN
    /\ issued = 0 /\ base = 1
    /\ file = Empty /\ row = 0
    /\ at = [p \in Processes |-> IF p = "worker" THEN "off" ELSE "idle"]
    /\ jar = [c \in Clients |-> 0]
    /\ out = [p \in Loggers |-> Empty] /\ proved = [p \in Loggers |-> 0]
    /\ tries = [p \in Loggers |-> 0]
    /\ back = "probe" /\ job = "new" /\ retried = FALSE
    /\ logins = 0 /\ robbed = 0 /\ spent = 0 /\ rotations = 0

Disturb ==
    /\ spent + rotations < MaxSpent
    /\ spent' = spent + 1
    /\ UNCHANGED <<logins, robbed, rotations>>

Accepted(j) == j >= base

----------------------------------------------------------------------------
(* BigSeller.                                                               *)

\* The session ends: it expires, or somebody logs in with a browser.
EndedElsewhere ==
    /\ Disturb
    /\ base' = issued + 1
    /\ UNCHANGED <<issued, copies, at, jar, login, turn>>

\* History: the session the worker has, from its login on.
Held == IF at["worker"] \in {"write", "fill"} /\ back # "persist" THEN out["worker"]
        ELSE jar["worker"]

\* Jars that were replaced stop being accepted.
Forget ==
    /\ base' \in base + 1 .. issued
    /\ robbed' = IF Held \in base .. base' - 1 THEN robbed + 1 ELSE robbed
    /\ UNCHANGED <<issued, copies, at, jar, login, turn, logins, spent, rotations>>

\* BigSeller replaces a jar in an answer.
Rotates ==
    /\ rotations < MaxRotations /\ spent + rotations < MaxSpent
    /\ rotations' = rotations + 1
    /\ issued' = issued + 1

\* An answer to client c, with a new jar or without.
Answered(c) ==
    /\ Accepted(jar[c])
    /\ UNCHANGED <<base, logins, robbed, spent>>
    /\ \/ UNCHANGED <<issued, jar, rotations>>
       \/ Rotates /\ jar' = [jar EXCEPT ![c] = issued + 1]

----------------------------------------------------------------------------
(* The worker's turn.                                                       *)

\* bootstrap_account copies the file to the row, if it can.
Bootstrapped == row' \in {row, IF file = Empty THEN row ELSE file}

\* run_worker starts, and the client takes its cookies from the file.
Start ==
    /\ at["worker"] = "off"
    /\ auto \/ file # Empty
    /\ at' = [at EXCEPT !["worker"] = "idle"]
    /\ jar' = [jar EXCEPT !["worker"] = file]
    /\ Bootstrapped
    /\ UNCHANGED <<bigseller, file, login, turn, counts>>

Go(step, j) ==
    /\ at' = [at EXCEPT !["worker"] = step]
    /\ job' = j
    /\ retried' = FALSE

\* A turn in the work hours, and the cancel sync of the evening.
BeginTurn(j) ==
    /\ at["worker"] = "idle"
    /\ Go("probe", j)
    /\ UNCHANGED <<bigseller, copies, jar, login, back, counts>>

\* A job is over; the session is saved after a new sync that succeeded. The
\* shipped orders are pulled every sixth turn.
\* Mutant: saved after every new sync.
EndedSaving(ok) ==
    \/ job = "new" /\ Go("persist", job)
    \/ job = "reconcile" /\ Go("pull", "processing")
    \/ job = "processing" /\ Go("pull", "shipped")
    \/ job \in {"processing", "shipped", "cancel"} /\ Go("idle", "new")
Ended(ok) ==
    \/ job = "new" /\ ok /\ Go("persist", job)
    \/ job = "new" /\ ~ok /\ Go("pull", "processing")
    \/ job = "reconcile" /\ Go("pull", "processing")
    \/ job = "processing" /\ Go("pull", "shipped")
    \/ job \in {"processing", "shipped", "cancel"} /\ Go("idle", "new")

\* The login the worker wanted has failed: the turn is skipped, or the job.
NoLogin(why) ==
    \/ why = "probe" /\ Go("idle", "new")
    \/ why = "pull" /\ Ended(FALSE)

Relogin(why) ==
    /\ back' = why
    /\ \/ /\ auto
          /\ at' = [at EXCEPT !["worker"] = "login"]
          /\ tries' = [tries EXCEPT !["worker"] = 0]
          /\ retried' = (why = "pull")
          /\ UNCHANGED job
       \/ ~auto /\ NoLogin(why) /\ UNCHANGED tries
    /\ UNCHANGED <<bigseller, copies, jar, out, proved, counts>>

\* ensure_api: isLogin.
ProbeActive ==
    /\ at["worker"] = "probe"
    /\ Answered("worker")
    /\ Go("pull", job)
    /\ UNCHANGED <<copies, login, back>>

\* Mutant: the turn is skipped, a later one may log in.
ProbeExpiredSkips ==
    /\ at["worker"] = "probe" /\ ~Accepted(jar["worker"])
    /\ Go("idle", "new")
    /\ UNCHANGED <<bigseller, copies, jar, login, back, counts>>
ProbeExpired ==
    /\ at["worker"] = "probe" /\ ~Accepted(jar["worker"])
    /\ Relogin("probe")

ProbeFails ==
    /\ at["worker"] = "probe"
    /\ Disturb
    /\ Go("pull", job)
    /\ UNCHANGED <<bigseller, copies, jar, login, back>>

\* A pull: run_new_sync, run_reconcile, run_bucket_sync, run_cancel_sync.
Pulled ==
    /\ at["worker"] = "pull"
    /\ Answered("worker")
    /\ Ended(TRUE)
    /\ proved' = IF job = "new" THEN [proved EXCEPT !["worker"] = base] ELSE proved
    /\ UNCHANGED <<copies, out, tries, back>>

\* The session expired: log in and pull again, once. The cancel sync takes
\* every error for an empty bucket.
PullExpired ==
    /\ at["worker"] = "pull" /\ ~Accepted(jar["worker"])
    /\ ~retried /\ job # "cancel"
    /\ Relogin("pull")

PullGivenUp ==
    /\ at["worker"] = "pull" /\ ~Accepted(jar["worker"])
    /\ retried \/ job = "cancel"
    /\ Ended(FALSE)
    /\ UNCHANGED <<bigseller, copies, jar, login, back, counts>>

PullFails ==
    /\ at["worker"] = "pull"
    /\ Disturb
    /\ Ended(FALSE)
    /\ UNCHANGED <<bigseller, copies, jar, login, back>>

\* persist_session: the live cookies over those of the file.
Snapshot ==
    /\ at["worker"] = "persist"
    /\ out' = [out EXCEPT !["worker"] = jar["worker"]]
    /\ back' = "persist"
    /\ at' = [at EXCEPT !["worker"] = "write"]
    /\ UNCHANGED <<bigseller, copies, jar, proved, tries, job, retried, counts>>

----------------------------------------------------------------------------
(* A login, by the worker or by a person, and the two copies.               *)

\* `orders login`.
Person ==
    /\ at["cli"] = "idle"
    /\ Disturb
    /\ at' = [at EXCEPT !["cli"] = "login"]
    /\ tries' = [tries EXCEPT !["cli"] = 0]
    /\ UNCHANGED <<bigseller, copies, jar, out, proved, turn>>

\* The session in hand goes, with the call it was the local of.
Drop(p) ==
    /\ out' = [out EXCEPT ![p] = Empty]
    /\ proved' = [proved EXCEPT ![p] = 0]
    /\ tries' = [tries EXCEPT ![p] = 0]
    /\ back' = IF p = "worker" THEN "probe" ELSE back

\* Process p is done without a session, or without one of its copies.
GiveUp(p) ==
    \/ /\ p = "cli" \* the program ends
       /\ at' = [at EXCEPT !["cli"] = "idle"]
       /\ UNCHANGED <<job, retried>>
    \/ p = "worker" /\ back # "persist" /\ NoLogin(back)
    \/ p = "worker" /\ back = "persist" /\ Go("pull", "reconcile")

\* A captcha that could not be fetched or read, or was refused.
\* Mutant: one try too many.
AnotherTryLate(p) == tries[p] < Attempts + 1
AnotherTry(p) == tries[p] < Attempts
Refused(p) ==
    /\ at[p] = "login"
    /\ AnotherTry(p)
    /\ tries' = [tries EXCEPT ![p] = @ + 1]
    /\ UNCHANGED <<bigseller, copies, at, jar, out, proved, turn, counts>>

\* Tried out, or stopped at once by an error of the client.
Exhausted(p) ==
    /\ at[p] = "login"
    /\ \/ tries[p] = Attempts /\ UNCHANGED counts
       \/ Disturb
    /\ GiveUp(p) /\ Drop(p)
    /\ UNCHANGED <<bigseller, copies, jar>>

Accept(p) ==
    /\ at[p] = "login"
    /\ AnotherTry(p)
    /\ issued' = issued + 1 /\ base' = issued + 1
    /\ out' = [out EXCEPT ![p] = issued + 1]
    /\ proved' = [proved EXCEPT ![p] = issued + 1]
    /\ at' = [at EXCEPT ![p] = "write"]
    /\ logins' = IF p = "worker" THEN logins + 1 ELSE logins
    /\ UNCHANGED <<copies, jar, tries, turn, robbed, spent, rotations>>

\* SessionData::save: fs::write empties the file, then fills it.
Truncate(p) ==
    /\ at[p] = "write"
    /\ file' = Empty
    /\ at' = [at EXCEPT ![p] = "fill"]
    /\ UNCHANGED <<bigseller, row, jar, login, turn, counts>>

\* The worker's client is the new session's from here on.
TakesIt(p) == jar' = IF p = "worker" THEN [jar EXCEPT ![p] = out[p]] ELSE jar
Fill(p) ==
    /\ at[p] = "fill"
    /\ file' = out[p]
    /\ IF p = "worker" /\ back = "persist" THEN UNCHANGED jar ELSE TakesIt(p)
    /\ at' = [at EXCEPT ![p] = IF p = "cli" THEN "copy" ELSE "record"]
    /\ UNCHANGED <<bigseller, row, login, turn, counts>>

SaveFails(p) ==
    /\ at[p] \in {"write", "fill"}
    /\ Disturb
    /\ GiveUp(p) /\ Drop(p)
    /\ UNCHANGED <<bigseller, copies, jar>>

\* A person's login meets bootstrap_account before its own save.
Copied ==
    /\ at["cli"] = "copy"
    /\ Bootstrapped
    /\ at' = [at EXCEPT !["cli"] = "record"]
    /\ UNCHANGED <<bigseller, file, jar, login, turn, counts>>

\* save_session_row, after which the worker goes on with what it wanted.
\* Mutant: the row is left to the next start.
RecordedNot(p) == UNCHANGED row
Recorded(p) == row' = out[p]
Record(p) ==
    /\ at[p] = "record"
    /\ Recorded(p)
    /\ \/ p = "worker" /\ back # "persist" /\ at' = [at EXCEPT ![p] = "pull"]
          /\ UNCHANGED <<job, retried>>
       \/ (p = "cli" \/ back = "persist") /\ GiveUp(p)
    /\ Drop(p)
    /\ UNCHANGED <<bigseller, file, jar, counts>>

RecordFails(p) ==
    /\ at[p] \in {"copy", "record"}
    /\ Disturb
    /\ GiveUp(p) /\ Drop(p)
    /\ UNCHANGED <<bigseller, copies, jar>>

\* The process is killed; the file stays as it is.
Crash(p) ==
    /\ Disturb
    /\ \/ /\ p = "worker" /\ at[p] # "off"
          /\ at' = [at EXCEPT ![p] = "off"]
          /\ jar' = [jar EXCEPT ![p] = 0]
          /\ job' = "new" /\ retried' = FALSE
       \/ /\ p = "cli" /\ at[p] # "idle"
          /\ at' = [at EXCEPT ![p] = "idle"]
          /\ UNCHANGED <<jar, job, retried>>
    /\ Drop(p)
    /\ UNCHANGED <<bigseller, copies>>

----------------------------------------------------------------------------
(* The tasks, which take the session from the file and never log in.         *)

Room == Cardinality({t \in Tasks : at[t] # "idle"}) < MaxTasks

\* A task takes the cookies of the file: prepared for isLogin and the pull, one
\* run at a time, or for batchInternalVerify and batchPack. Without a session in
\* the file it is over at once.
Load(t) ==
    /\ at[t] = "idle" /\ Room /\ file # Empty
    /\ jar' = [jar EXCEPT ![t] = file]
    /\ at' = [at EXCEPT ![t] = "probe"]
    /\ UNCHANGED <<bigseller, copies, login, turn, counts>>

\* The session is active, the orders can be packed; or a further call.
Goes(t) ==
    /\ at[t] \in {"probe", "pull"}
    /\ Answered(t)
    /\ at' = [at EXCEPT ![t] = "pull"]
    /\ UNCHANGED <<copies, login, turn>>

\* The task is over: nothing more to do, an error, or a session that expired.
\* Whatever jar BigSeller gave its client is gone with it.
Over(t) ==
    /\ at[t] # "idle"
    /\ at' = [at EXCEPT ![t] = "idle"]
    /\ jar' = [jar EXCEPT ![t] = 0]

\* Mutant: the run logs in when the session it loaded is not active.
EndsWithLogin(t) ==
    /\ Over(t)
    /\ IF at[t] = "probe" /\ ~Accepted(jar[t])
       THEN /\ issued' = issued + 1 /\ base' = issued + 1
            /\ file' = issued + 1
       ELSE UNCHANGED <<bigseller, file>>
    /\ UNCHANGED <<row, login, turn, counts>>
Ends(t) ==
    /\ Over(t)
    /\ UNCHANGED <<bigseller, copies, login, turn, counts>>

\* Packing: the verification refused with an HTTP status reads the file again
\* and is asked once more; the submit goes to the client of the first load.
VerifyAgain ==
    /\ at["pack"] = "probe" /\ ~Accepted(jar["pack"])
    /\ file # Empty /\ Accepted(file)
    /\ at' = [at EXCEPT !["pack"] = "again"]
    /\ UNCHANGED <<base, copies, jar, login, turn, logins, robbed, spent>>
    /\ Rotates \/ UNCHANGED <<issued, rotations>>

----------------------------------------------------------------------------

Turn ==
    \/ Start \/ BeginTurn("new")
    \/ ProbeActive \/ ProbeExpired \/ ProbeFails
    \/ Pulled \/ PullExpired \/ PullGivenUp \/ PullFails \/ Snapshot
LogsIn(p) ==
    \/ Exhausted(p) \/ Accept(p)
    \/ Truncate(p) \/ Fill(p) \/ SaveFails(p) \/ Record(p) \/ RecordFails(p)
Task(t) == Load(t) \/ Goes(t) \/ Ends(t)
AtWork ==
    \/ VerifyAgain
    \/ \E t \in Tasks : Task(t)

Next ==
    /\ UNCHANGED auto
    /\ \/ EndedElsewhere \/ Forget
       \/ Turn \/ BeginTurn("cancel") \/ Person \/ Copied
       \/ \E p \in Loggers : LogsIn(p) \/ Refused(p) \/ Crash(p)
       \/ AtWork

Spec == Init /\ [][Next]_vars

\* The loop goes round and meets the work hours every day (no webhook and no
\* mail, whose requests have no timeout, holds it for ever), a login that was
\* begun ends, and a captcha that is tried again and again is read and taken
\* sooner or later.
Fairness ==
    /\ WF_moving(Turn) /\ SF_moving(BeginTurn("new"))
    /\ \A p \in Loggers : WF_moving(LogsIn(p)) /\ SF_moving(Accept(p))
    /\ WF_moving(Copied)
FairSpec == Spec /\ Fairness

----------------------------------------------------------------------------
(* Properties.                                                              *)

\* The worker logs in once, and then once for each session that ended or was
\* lost, whatever the processes beside it do: a session that expires under a
\* pull and again under its retry, a login that could not be saved, a person's
\* login, a jar that was replaced for a task and not for the worker.
LoginsHaveACause == logins <= IF auto THEN 1 + spent + robbed ELSE 0

\* A session BigSeller no longer accepts is written over the file only when
\* what ended it came after the answer that showed it was accepted:
\* persist_session over `orders login`, the two logins of one moment.
DeadOnlyIfOvertaken ==
    [][\A p \in Loggers :
         at[p] = "fill" /\ file' = out[p] /\ ~Accepted(out[p])
         => proved[p] \in 1 .. base - 1]_vars

\* However the session was lost, the worker has one again.
Recovers == auto => <>[](at["worker"] # "off" /\ Accepted(jar["worker"]))

\* The file and the row get the session the worker works with: after half
\* written files, lost writes and older sessions written over newer ones. The
\* file is empty, for whoever reads it, while it is written anew.
CopiesCatchUp == auto =>
    /\ <>[](row = jar["worker"] /\ file \in {Empty, jar["worker"]})
    /\ []<>(file # Empty)
==============================================================================
