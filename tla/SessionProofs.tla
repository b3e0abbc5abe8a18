--------------------------- MODULE SessionProofs ---------------------------
(***************************************************************************)
(* Theorems of Session, for any number of attempts, tasks, disturbances    *)
(* and replaced jars: the worker logs in only for a cause, and a dead      *)
(* session reaches the file only when what ended it came after the answer  *)
(* that proved it.                                                         *)
(***************************************************************************)
EXTENDS Session, TLAPS

Steps == {"off", "idle", "probe", "login", "pull", "persist", "write", "fill",
          "copy", "record", "again"}
Jobs == {"new", "reconcile", "processing", "shipped", "cancel"}

\* A login or a snapshot that is being written was proved: what process p has
\* in hand is no older than what BigSeller accepted then.
HandedOf(p) ==
    at[p] \in {"write", "fill"} => proved[p] \in 1 .. base /\ out[p] >= proved[p]
Saving ==
    at["worker"] = "persist" =>
        proved["worker"] \in 1 .. base /\ jar["worker"] >= proved["worker"]
InHand == Saving /\ \A p \in Loggers : HandedOf(p)

\* The worker is writing the session of its login.
Coming == at["worker"] \in {"write", "fill"} /\ back # "persist"
ComingIsNewer == Coming => out["worker"] > jar["worker"]
LoginWanted == at["worker"] = "login" => back # "persist" /\ auto
OffIsOut == at["worker"] = "off" => jar["worker"] < base

\* It has no accepted session, nor one on the way; and a person who began a
\* login has not ended the session yet.
Needs ==
    \/ at["worker"] = "login"
    \/ Coming /\ out["worker"] < base
    \/ ~Coming /\ jar["worker"] < base
Due == (IF Needs THEN 1 ELSE 0) + (IF at["cli"] = "login" THEN 1 ELSE 0)
Cost == spent + robbed
Paid == IF auto THEN logins + Due - Cost <= 1 ELSE logins = 0

LoginInv == ComingIsNewer /\ LoginWanted /\ OffIsOut /\ Paid

IInv == TypeOK /\ InHand /\ LoginInv

-----------------------------------------------------------------------------
(* Types.                                                                  *)

WorkerTypes ==
    /\ at' \in [Processes -> Steps]
    /\ job' \in Jobs /\ retried' \in BOOLEAN

LEMMA GoTypes ==
    ASSUME TypeOK, NEW s \in Steps, NEW j \in Jobs, Go(s, j)
    PROVE  WorkerTypes
BY DEF TypeOK, Go, WorkerTypes, Steps, Jobs, Processes, Loggers, Tasks

LEMMA EndedTypes ==
    ASSUME TypeOK, NEW ok, Ended(ok)
    PROVE  WorkerTypes
<1>1. job \in Jobs
  BY DEF TypeOK, Jobs
<1>2. /\ {"persist", "pull", "idle"} \subseteq Steps
      /\ {"processing", "shipped", "new"} \subseteq Jobs
  BY DEF Steps, Jobs
<1>3. \E s \in Steps, j \in Jobs : Go(s, j)
  BY <1>1, <1>2 DEF Ended
<1> QED
  BY <1>3, GoTypes

LEMMA NoLoginTypes ==
    ASSUME TypeOK, NEW why, NoLogin(why)
    PROVE  WorkerTypes
<1>1. "idle" \in Steps /\ "new" \in Jobs
  BY DEF Steps, Jobs
<1> QED
  BY <1>1, GoTypes, EndedTypes DEF NoLogin

LEMMA GiveUpTypes ==
    ASSUME TypeOK, NEW p \in Loggers, GiveUp(p)
    PROVE  WorkerTypes
<1>1. "pull" \in Steps /\ "reconcile" \in Jobs
  BY DEF Steps, Jobs
<1>2. CASE p = "cli" /\ at' = [at EXCEPT !["cli"] = "idle"] /\ UNCHANGED <<job, retried>>
  BY <1>2 DEF TypeOK, WorkerTypes, Steps, Jobs, Processes, Loggers, Tasks
<1> QED
  BY <1>1, <1>2, GoTypes, NoLoginTypes DEF GiveUp

LEMMA DropTypes ==
    ASSUME TypeOK, NEW p \in Loggers, Drop(p)
    PROVE  /\ out' \in [Loggers -> Jars]
           /\ proved' \in [Loggers -> 0 .. issued + 1]
           /\ tries' \in [Loggers -> 0 .. Attempts]
           /\ back' \in {"probe", "pull", "persist"}
BY SessionAssumption DEF TypeOK, Drop, Jars, Empty

\* The parts of TypeOK, the sets of its names folded.
Typed ==
    /\ auto \in BOOLEAN
    /\ issued \in Nat /\ base \in 1 .. issued + 1
    /\ file \in Jars /\ row \in Jars
    /\ at \in [Processes -> Steps]
    /\ jar \in [Clients -> Jars]
    /\ out \in [Loggers -> Jars] /\ proved \in [Loggers -> 0 .. issued + 1]
    /\ tries \in [Loggers -> 0 .. Attempts]
    /\ back \in {"probe", "pull", "persist"}
    /\ job \in Jobs /\ retried \in BOOLEAN
    /\ logins \in Nat /\ robbed \in Nat
    /\ spent \in 0 .. MaxSpent /\ rotations \in 0 .. MaxRotations

LEMMA TypedIsTypeOK == TypeOK <=> Typed
BY DEF TypeOK, Typed, Steps, Jobs

LEMMA TypedIsTypeOKNext == TypeOK' <=> Typed'
BY DEF TypeOK, Typed, Steps, Jobs

\* Whatever BigSeller issues next, what is a jar stays one.
LEMMA MoreJars ==
    ASSUME Typed, issued' = issued + 1
    PROVE  /\ Jars \subseteq Jars' /\ 0 .. issued + 1 \subseteq 0 .. issued' + 1
           /\ issued' \in Nat /\ issued + 1 \in Jars' /\ issued + 1 \in 1 .. issued' + 1
           /\ jar \in [Clients -> Jars'] /\ out \in [Loggers -> Jars']
           /\ proved \in [Loggers -> 0 .. issued' + 1]
           /\ file \in Jars' /\ row \in Jars' /\ base \in 1 .. issued' + 1
<1>1. /\ Jars \subseteq Jars' /\ 0 .. issued + 1 \subseteq 0 .. issued' + 1
      /\ issued' \in Nat /\ issued + 1 \in Jars' /\ issued + 1 \in 1 .. issued' + 1
      /\ base \in 1 .. issued' + 1
  BY DEF Typed, Jars
<1> QED
  BY <1>1 DEF Typed

LEMMA AnsweredTypes ==
    ASSUME Typed, NEW c \in Clients, Answered(c)
    PROVE  /\ issued' \in Nat /\ base' \in 1 .. issued' + 1
           /\ jar' \in [Clients -> Jars']
           /\ rotations' \in 0 .. MaxRotations /\ logins' \in Nat /\ spent' \in 0 .. MaxSpent
           /\ robbed' = robbed
           /\ Jars \subseteq Jars' /\ 0 .. issued + 1 \subseteq 0 .. issued' + 1
           /\ base' = base
<1>1. CASE UNCHANGED <<issued, jar, rotations>>
  BY <1>1 DEF Typed, Answered, Jars
<1>2. CASE Rotates /\ jar' = [jar EXCEPT ![c] = issued + 1]
  <2>1. jar \in [Clients -> Jars'] /\ issued + 1 \in Jars'
    BY <1>2, MoreJars DEF Rotates
  <2>2. jar' \in [Clients -> Jars']
    BY <2>1, <1>2
  <2> QED
    BY <1>2, <2>2, MoreJars, SessionAssumption DEF Typed, Answered, Rotates
<1> QED
  BY <1>1, <1>2 DEF Answered

LEMMA DisturbTypes ==
    ASSUME Typed, Disturb
    PROVE  /\ spent' \in 0 .. MaxSpent /\ spent' = spent + 1
           /\ logins' = logins /\ robbed' = robbed /\ rotations' = rotations
BY SessionAssumption DEF Typed, Disturb

LEMMA ReloginTypes ==
    ASSUME Typed, NEW why \in {"probe", "pull"}, Relogin(why), auto' = auto
    PROVE  Typed'
<1> USE DEF Typed, Jars, bigseller, copies, counts
<1>1. WorkerTypes
  <2>1. CASE NoLogin(why)
    BY <2>1, NoLoginTypes, TypedIsTypeOK
  <2>2. CASE at' = [at EXCEPT !["worker"] = "login"] /\ retried' = (why = "pull")
             /\ UNCHANGED job
    BY <2>2 DEF WorkerTypes, Steps, Processes, Loggers
  <2> QED
    BY <2>1, <2>2 DEF Relogin
<1>2. tries' \in [Loggers -> 0 .. Attempts]
  BY SessionAssumption DEF Relogin
<1> QED
  BY <1>1, <1>2 DEF Relogin, WorkerTypes

\* Steps of the worker that change nothing but where it stands.
LEMMA TurnTypes ==
    ASSUME Typed, WorkerTypes, auto' = auto,
           UNCHANGED <<bigseller, copies, jar, login>>,
           back' \in {"probe", "pull", "persist"},
           logins' \in Nat, robbed' \in Nat,
           spent' \in 0 .. MaxSpent, rotations' \in 0 .. MaxRotations
    PROVE  Typed'
BY DEF Typed, WorkerTypes, Jars, bigseller, copies, login

\* Next, action by action.
LEMMA NextTyped ==
    ASSUME Typed, [Next]_vars
    PROVE  Typed'
<1> USE DEF Typed, Jars, bigseller, copies, login, turn, counts
<1>0. CASE UNCHANGED vars
  BY <1>0 DEF vars, moving
<1> SUFFICES ASSUME Next PROVE Typed'
  BY <1>0
<1>1. auto' = auto
  BY DEF Next
<1>2. TypeOK
  BY TypedIsTypeOK
<1>3. "worker" \in Processes /\ "cli" \in Processes /\ Tasks \subseteq Processes
      /\ Loggers \subseteq Processes /\ "worker" \in Loggers /\ "cli" \in Loggers
      /\ "worker" \in Clients /\ Tasks \subseteq Clients
  BY DEF Processes, Clients, Loggers, Tasks
<1>4. Steps = {"off", "idle", "probe", "login", "pull", "persist", "write", "fill",
               "copy", "record", "again"}
  BY DEF Steps
<1>5. Jobs = {"new", "reconcile", "processing", "shipped", "cancel"}
  BY DEF Jobs
<1>6. CASE EndedElsewhere
  BY <1>1, <1>6, DisturbTypes DEF EndedElsewhere
<1>7. CASE Forget
  <2>1. base' \in 1 .. issued + 1 /\ robbed' \in Nat
    BY <1>7 DEF Forget
  <2> QED
    BY <1>1, <1>7, <2>1 DEF Forget
<1>8. CASE Turn
  <2>1. CASE Start
    BY <1>1, <1>3, <1>4, <2>1 DEF Start, Bootstrapped
  <2>2. CASE BeginTurn("new")
    BY <1>1, <1>2, <1>4, <1>5, <2>2, GoTypes, TurnTypes DEF BeginTurn
  <2>3. CASE ProbeActive
    <3>1. WorkerTypes
      BY <1>2, <1>4, <2>3, GoTypes DEF ProbeActive
    <3> QED
      BY <1>1, <1>3, <2>3, <3>1, AnsweredTypes DEF ProbeActive, WorkerTypes
  <2>4. CASE ProbeExpired
    BY <1>1, <2>4, ReloginTypes DEF ProbeExpired
  <2>5. CASE ProbeFails
    BY <1>1, <1>2, <1>4, <2>5, GoTypes, TurnTypes, DisturbTypes DEF ProbeFails
  <2>6. CASE Pulled
    <3>1. WorkerTypes
      BY <1>2, <2>6, EndedTypes DEF Pulled
    <3>2. base \in 0 .. issued + 1
      OBVIOUS
    <3>3. proved' \in [Loggers -> 0 .. issued + 1]
      BY <2>6, <3>2 DEF Pulled
    <3>4. proved' \in [Loggers -> 0 .. issued' + 1]
      BY <1>3, <2>6, <3>3, AnsweredTypes DEF Pulled
    <3> QED
      BY <1>1, <1>3, <2>6, <3>1, <3>4, AnsweredTypes DEF Pulled, WorkerTypes
  <2>7. CASE PullExpired
    BY <1>1, <2>7, ReloginTypes DEF PullExpired
  <2>8. CASE PullGivenUp
    BY <1>1, <1>2, <2>8, EndedTypes, TurnTypes DEF PullGivenUp
  <2>9. CASE PullFails
    BY <1>1, <1>2, <2>9, EndedTypes, TurnTypes, DisturbTypes DEF PullFails
  <2>10. CASE Snapshot
    BY <1>1, <1>3, <1>4, <2>10 DEF Snapshot
  <2> QED
    BY <1>8, <2>1, <2>2, <2>3, <2>4, <2>5, <2>6, <2>7, <2>8, <2>9, <2>10 DEF Turn
<1>9. CASE BeginTurn("cancel")
  BY <1>1, <1>2, <1>4, <1>5, <1>9, GoTypes, TurnTypes DEF BeginTurn
<1>10. CASE Person
  BY <1>1, <1>3, <1>4, <1>10, DisturbTypes, SessionAssumption DEF Person
<1>11. ASSUME NEW p \in Loggers, LogsIn(p) \/ Refused(p) \/ Crash(p)
       PROVE  Typed'
  <2>1. CASE Exhausted(p)
    <3>1. /\ spent' \in 0 .. MaxSpent /\ logins' = logins /\ rotations' = rotations
          /\ robbed' = robbed
      BY <2>1, DisturbTypes DEF Exhausted
    <3> QED
      BY <1>1, <1>2, <2>1, <3>1, GiveUpTypes, DropTypes DEF Exhausted, WorkerTypes
  <2>2. CASE Accept(p)
    <3>1. issued' = issued + 1
      BY <2>2 DEF Accept
    <3>2. /\ out \in [Loggers -> Jars'] /\ issued + 1 \in Jars'
          /\ jar' \in [Clients -> Jars'] /\ file' \in Jars' /\ row' \in Jars'
          /\ base' \in 1 .. issued' + 1 /\ issued' \in Nat
          /\ proved \in [Loggers -> 0 .. issued' + 1] /\ issued + 1 \in 0 .. issued' + 1
      BY <2>2, <3>1, MoreJars DEF Accept
    <3>3. out' \in [Loggers -> Jars'] /\ proved' \in [Loggers -> 0 .. issued' + 1]
      BY <2>2, <3>2 DEF Accept
    <3> QED
      BY <1>1, <1>3, <1>4, <2>2, <3>2, <3>3 DEF Accept
  <2>3. CASE Truncate(p)
    BY <1>1, <1>3, <1>4, <2>3 DEF Truncate, Empty
  <2>4. CASE Fill(p)
    <3>1. jar' \in [Clients -> Jars]
      BY <1>3, <2>4 DEF Fill, TakesIt
    <3> QED
      BY <1>1, <1>3, <1>4, <2>4, <3>1 DEF Fill
  <2>5. CASE SaveFails(p)
    BY <1>1, <1>2, <2>5, GiveUpTypes, DropTypes, DisturbTypes DEF SaveFails, WorkerTypes
  <2>6. CASE Record(p)
    <3>1. WorkerTypes
      <4>1. CASE at' = [at EXCEPT ![p] = "pull"] /\ UNCHANGED <<job, retried>>
        BY <1>3, <1>4, <4>1 DEF WorkerTypes
      <4> QED
        BY <1>2, <2>6, <4>1, GiveUpTypes DEF Record
    <3> QED
      BY <1>1, <1>2, <2>6, <3>1, DropTypes DEF Record, Recorded, WorkerTypes
  <2>7. CASE RecordFails(p)
    BY <1>1, <1>2, <2>7, GiveUpTypes, DropTypes, DisturbTypes
       DEF RecordFails, WorkerTypes
  <2>8. CASE Refused(p)
    BY <1>1, <2>8, SessionAssumption DEF Refused, AnotherTry
  <2>9. CASE Crash(p)
    <3>1. at' \in [Processes -> Steps] /\ job' \in Jobs /\ retried' \in BOOLEAN
      BY <1>3, <1>4, <1>5, <2>9 DEF Crash
    <3>2. jar' \in [Clients -> Jars]
      BY <1>3, <2>9 DEF Crash
    <3> QED
      BY <1>1, <1>2, <2>9, <3>1, <3>2, DropTypes, DisturbTypes DEF Crash
  <2> QED
    BY <1>11, <2>1, <2>2, <2>3, <2>4, <2>5, <2>6, <2>7, <2>8, <2>9 DEF LogsIn
<1>12. CASE VerifyAgain
  <2>1. at' \in [Processes -> Steps]
    BY <1>3, <1>4, <1>12 DEF VerifyAgain
  <2>2. CASE Rotates
    BY <1>1, <1>12, <2>1, <2>2, MoreJars, SessionAssumption DEF VerifyAgain, Rotates
  <2>3. CASE UNCHANGED <<issued, rotations>>
    BY <1>1, <1>12, <2>1, <2>3 DEF VerifyAgain
  <2> QED
    BY <1>12, <2>2, <2>3 DEF VerifyAgain
<1>13. ASSUME NEW t \in Tasks, Load(t) \/ Ends(t)
       PROVE  Typed'
  BY <1>1, <1>3, <1>4, <1>13 DEF Load, Ends, Over
<1>14. ASSUME NEW t \in Tasks, Goes(t)
       PROVE  Typed'
  <2>1. at' \in [Processes -> Steps]
    BY <1>3, <1>4, <1>14 DEF Goes
  <2>2. t \in Clients
    BY <1>3
  <2> QED
    BY <1>1, <1>14, <2>1, <2>2, AnsweredTypes DEF Goes
<1>15. CASE Copied
  BY <1>1, <1>3, <1>4, <1>15 DEF Copied, Bootstrapped
<1> QED
  BY <1>6, <1>7, <1>8, <1>9, <1>10, <1>11, <1>12, <1>13, <1>14, <1>15
     DEF Next, AtWork, Task

LEMMA InitTyped == Init => Typed
<1> SUFFICES ASSUME Init PROVE Typed
  OBVIOUS
<1>1. at \in [Processes -> Steps]
  BY DEF Init, Steps
<1>2. /\ issued \in Nat /\ base \in 1 .. issued + 1
      /\ file \in Jars /\ row \in Jars /\ 0 \in Jars
      /\ logins \in Nat /\ robbed \in Nat
      /\ spent \in 0 .. MaxSpent /\ rotations \in 0 .. MaxRotations
  BY SessionAssumption DEF Init, Jars, Empty
<1>6. /\ auto \in BOOLEAN /\ retried \in BOOLEAN
      /\ job \in Jobs /\ back \in {"probe", "pull", "persist"}
  BY Zenon DEF Init, Jobs
<1>3. 0 \in 0 .. issued + 1 /\ 0 \in 0 .. Attempts
  BY <1>2, SessionAssumption
<1>4. jar \in [Clients -> Jars] /\ out \in [Loggers -> Jars]
  BY <1>2 DEF Init, Empty
<1>5. proved \in [Loggers -> 0 .. issued + 1] /\ tries \in [Loggers -> 0 .. Attempts]
  BY <1>3 DEF Init
<1> QED
  BY <1>1, <1>2, <1>4, <1>5, <1>6 DEF Typed

\* Type correctness.
THEOREM TypeCorrect == Spec => []TypeOK
<1>1. Init => TypeOK
  BY InitTyped, TypedIsTypeOK
<1>2. TypeOK /\ [Next]_vars => TypeOK'
  BY NextTyped, TypedIsTypeOK, TypedIsTypeOKNext
<1> QED
  BY <1>1, <1>2, PTL DEF Spec

-----------------------------------------------------------------------------
(* Where a step takes the processes.                                       *)

Stays(P) == \A q \in P : at'[q] = at[q]

LEMMA GoMoves ==
    ASSUME Typed, NEW s, NEW j, Go(s, j)
    PROVE  at'["worker"] = s /\ Stays(Processes \ {"worker"})
BY DEF Typed, Go, Stays, Processes, Loggers

\* Only a new sync that succeeded goes on to save the session.
LEMMA EndedMoves ==
    ASSUME Typed, NEW ok \in BOOLEAN, Ended(ok)
    PROVE  /\ at'["worker"] \in {"persist", "pull", "idle"}
           /\ at'["worker"] = "persist" => ok /\ job = "new"
           /\ Stays(Processes \ {"worker"})
<1>1. CASE job = "new" /\ ok /\ Go("persist", job)
  BY <1>1, GoMoves
<1>2. ASSUME NEW s \in {"pull", "idle"}, NEW j, Go(s, j)
      PROVE  /\ at'["worker"] \in {"pull", "idle"}
             /\ Stays(Processes \ {"worker"})
  BY <1>2, GoMoves
<1> QED
  BY <1>1, <1>2 DEF Ended

LEMMA NoLoginMoves ==
    ASSUME Typed, NEW why, NoLogin(why)
    PROVE  at'["worker"] \in {"pull", "idle"} /\ Stays(Processes \ {"worker"})
BY GoMoves, EndedMoves DEF NoLogin

LEMMA GiveUpMoves ==
    ASSUME Typed, NEW p \in Loggers, GiveUp(p)
    PROVE  at'[p] \in {"pull", "idle"} /\ Stays(Processes \ {p})
<1>1. CASE p = "cli" /\ at' = [at EXCEPT !["cli"] = "idle"]
  BY <1>1 DEF Typed, Stays, Processes, Loggers
<1> QED
  BY <1>1, GoMoves, NoLoginMoves DEF GiveUp

LEMMA DropLeaves ==
    ASSUME Typed, NEW p \in Loggers, Drop(p)
    PROVE  /\ \A q \in Loggers \ {p} : out'[q] = out[q] /\ proved'[q] = proved[q]
           /\ p = "cli" => back' = back
BY DEF Typed, Drop, Loggers

\* A task changes nothing of a login, nor of the worker.
LEMMA TasksLeave ==
    ASSUME Typed, AtWork
    PROVE  /\ UNCHANGED <<base, copies, login, turn, logins, robbed, spent>>
           /\ jar'["worker"] = jar["worker"]
           /\ \A q \in Loggers : at'[q] = at[q]
<1>1. /\ Loggers \subseteq Processes /\ Loggers \cap Tasks = {}
      /\ "worker" \in Clients \ Tasks /\ "pack" \in Tasks /\ Tasks \subseteq Clients
  BY DEF Loggers, Processes, Tasks, Clients
<1>2. CASE VerifyAgain
  BY <1>1, <1>2 DEF VerifyAgain, Typed
<1>3. ASSUME NEW t \in Tasks, Load(t) \/ Ends(t)
      PROVE  /\ UNCHANGED <<base, copies, login, turn, logins, robbed, spent>>
             /\ jar'["worker"] = jar["worker"]
             /\ \A q \in Loggers : at'[q] = at[q]
  BY <1>1, <1>3 DEF Load, Ends, Over, Typed, bigseller, counts
<1>4. ASSUME NEW t \in Tasks, Goes(t)
      PROVE  /\ UNCHANGED <<base, copies, login, turn, logins, robbed, spent>>
             /\ jar'["worker"] = jar["worker"]
             /\ \A q \in Loggers : at'[q] = at[q]
  BY <1>1, <1>4 DEF Goes, Answered, Rotates, Typed
<1> QED
  BY <1>2, <1>3, <1>4 DEF AtWork, Task

\* BigSeller never takes back what it stopped accepting.
LEMMA BaseGrows ==
    ASSUME Typed, [Next]_vars
    PROVE  base' >= base
<1> USE DEF Typed
<1>1. base \in Nat /\ issued \in Nat /\ base <= issued + 1
  OBVIOUS
<1>2. CASE UNCHANGED base
  BY <1>1, <1>2
<1>3. CASE base' = issued + 1
  BY <1>1, <1>3
<1>4. CASE Forget
  BY <1>1, <1>4 DEF Forget
<1>5. CASE Turn
  <2>1. CASE ProbeActive \/ Pulled
    BY <1>2, <2>1 DEF ProbeActive, Pulled, Answered
  <2>2. CASE ProbeExpired \/ PullExpired
    BY <1>2, <2>2 DEF ProbeExpired, PullExpired, Relogin, bigseller
  <2>3. CASE Start \/ BeginTurn("new") \/ ProbeFails \/ PullGivenUp \/ PullFails \/ Snapshot
    BY <1>2, <2>3 DEF Start, BeginTurn, ProbeFails, PullGivenUp, PullFails, Snapshot,
       bigseller
  <2> QED
    BY <1>5, <2>1, <2>2, <2>3 DEF Turn
<1>6. ASSUME NEW p \in Loggers, LogsIn(p) \/ Refused(p) \/ Crash(p)
      PROVE  base' >= base
  BY <1>1, <1>6 DEF LogsIn, Exhausted, Accept, Truncate, Fill, SaveFails, Record,
     RecordFails, Refused, Crash, bigseller
<1>7. CASE AtWork
  BY <1>2, <1>7, TasksLeave
<1> QED
  BY <1>2, <1>3, <1>4, <1>5, <1>6, <1>7
     DEF Next, EndedElsewhere, BeginTurn, Person, Copied, vars, moving, bigseller

-----------------------------------------------------------------------------
(* What a login or a snapshot has in hand.                                 *)

\* A step that leaves p and what it has in hand alone.
LEMMA HandedStays ==
    ASSUME Typed, [Next]_vars, NEW p \in Loggers, HandedOf(p),
           at'[p] \in {"write", "fill"} => at[p] \in {"write", "fill"},
           at'[p] \in {"write", "fill"} => out'[p] = out[p] /\ proved'[p] = proved[p]
    PROVE  HandedOf(p)'
<1>1. base' >= base /\ base' \in Nat /\ base \in Nat
  BY BaseGrows, NextTyped DEF Typed
<1>2. proved[p] \in Nat
  BY DEF Typed
<1> QED
  BY <1>1, <1>2 DEF HandedOf

LEMMA SavingStays ==
    ASSUME Typed, [Next]_vars, Saving,
           at'["worker"] = "persist" =>
               /\ at["worker"] = "persist"
               /\ jar'["worker"] = jar["worker"] /\ proved'["worker"] = proved["worker"]
    PROVE  Saving'
<1>1. base' >= base /\ base' \in Nat /\ base \in Nat
  BY BaseGrows, NextTyped DEF Typed
<1>2. proved["worker"] \in Nat
  BY DEF Typed, Loggers
<1> QED
  BY <1>1, <1>2 DEF Saving

LEMMA InHandStays ==
    ASSUME Typed, [Next]_vars, InHand, UNCHANGED <<at, jar, out, proved>>
    PROVE  InHand'
BY HandedStays, SavingStays DEF InHand

\* A turn of the worker that does not begin to save.
LEMMA InHandTurns ==
    ASSUME Typed, [Next]_vars, InHand, UNCHANGED <<out, proved>>,
           at'["worker"] \notin {"persist", "write", "fill"}, at'["cli"] = at["cli"]
    PROVE  InHand'
BY HandedStays, SavingStays DEF InHand, Loggers

\* A login that changes only what is its own.
LEMMA InHandLogs ==
    ASSUME Typed, [Next]_vars, InHand, NEW p \in Loggers, HandedOf(p)',
           Stays(Processes \ {p}),
           \A q \in Loggers \ {p} : out'[q] = out[q] /\ proved'[q] = proved[q],
           p = "worker" => at'[p] # "persist", p = "cli" => jar' = jar
    PROVE  InHand'
<1>1. \A q \in Loggers \ {p} : HandedOf(q)'
  BY HandedStays DEF InHand, Stays, Processes
<1>2. Saving'
  <2>1. CASE p = "worker"
    BY <2>1, SavingStays DEF InHand
  <2>2. CASE p = "cli"
    BY <2>2, SavingStays DEF InHand, Stays, Processes, Loggers
  <2> QED
    BY <2>1, <2>2 DEF Loggers
<1> QED
  BY <1>1, <1>2 DEF InHand

LEMMA InHandKept ==
    ASSUME Typed, InHand, [Next]_vars
    PROVE  InHand'
<1>1. /\ "worker" \in Loggers /\ "cli" \in Loggers /\ "worker" # "cli"
      /\ Loggers \subseteq Processes /\ Loggers \cap Tasks = {}
  BY DEF Loggers, Processes, Tasks
<1>2. CASE UNCHANGED vars \/ EndedElsewhere \/ Forget
  BY <1>2, InHandStays DEF vars, moving, login, EndedElsewhere, Forget
<1>3. CASE Turn \/ BeginTurn("cancel")
  <2>1. CASE Start
    BY <1>1, <2>1, InHandTurns DEF Typed, Start, login
  <2>2. CASE BeginTurn("new") \/ BeginTurn("cancel")
    BY <1>1, <2>2, InHandTurns, GoMoves DEF BeginTurn, login, Stays
  <2>3. CASE ProbeActive
    BY <1>1, <2>3, InHandTurns, GoMoves DEF ProbeActive, login, Stays
  <2>4. CASE ProbeExpired \/ PullExpired
    <3>1. ASSUME NEW why \in {"probe", "pull"}, Relogin(why)
          PROVE  at'["worker"] \notin {"persist", "write", "fill"} /\ at'["cli"] = at["cli"]
                 /\ UNCHANGED <<out, proved>>
      BY <1>1, <3>1, NoLoginMoves DEF Typed, Relogin, Stays
    <3> QED
      BY <2>4, <3>1, InHandTurns DEF ProbeExpired, PullExpired
  <2>5. CASE ProbeFails
    BY <1>1, <2>5, InHandTurns, GoMoves DEF ProbeFails, login, Stays
  <2>6. CASE Pulled
    <3>1. /\ at'["worker"] \in {"persist", "pull", "idle"} /\ at'["cli"] = at["cli"]
          /\ at'["worker"] = "persist" => job = "new"
      BY <1>1, <2>6, EndedMoves DEF Pulled, Stays
    <3>2. HandedOf("worker")' /\ HandedOf("cli")'
      <4>1. HandedOf("worker")'
        BY <3>1 DEF HandedOf
      <4>2. out'["cli"] = out["cli"] /\ proved'["cli"] = proved["cli"]
        BY <1>1, <2>6 DEF Pulled, Typed
      <4> QED
        BY <1>1, <3>1, <4>1, <4>2, HandedStays DEF InHand
    <3>3. ASSUME at'["worker"] = "persist"
          PROVE  proved'["worker"] \in 1 .. base' /\ jar'["worker"] >= proved'["worker"]
      <4>1. proved'["worker"] = base /\ base' = base /\ base \in Nat \ {0}
        BY <1>1, <2>6, <3>1, <3>3 DEF Pulled, Answered, Typed
      <4>2. jar'["worker"] >= base
        BY <2>6 DEF Pulled, Answered, Accepted, Typed, Jars, Clients
      <4> QED
        BY <4>1, <4>2
    <3> QED
      BY <3>2, <3>3 DEF InHand, Saving, Loggers
  <2>7. CASE PullGivenUp \/ PullFails
    <3>1. at'["worker"] \notin {"persist", "write", "fill"} /\ at'["cli"] = at["cli"]
      BY <1>1, <2>7, EndedMoves DEF PullGivenUp, PullFails, Stays
    <3> QED
      BY <2>7, <3>1, InHandTurns DEF PullGivenUp, PullFails, login
  <2>8. CASE Snapshot
    <3>1. /\ out'["worker"] = jar["worker"] /\ proved' = proved /\ base' = base
          /\ at'["worker"] = "write" /\ \A q \in Processes \ {"worker"} : at'[q] = at[q]
          /\ out'["cli"] = out["cli"]
      BY <1>1, <2>8 DEF Snapshot, Typed, bigseller
    <3>2. HandedOf("worker")'
      BY <2>8, <3>1 DEF HandedOf, InHand, Saving, Snapshot
    <3> QED
      BY <1>1, <3>1, <3>2, InHandLogs DEF Loggers, Stays
  <2> QED
    BY <1>3, <2>1, <2>2, <2>3, <2>4, <2>5, <2>6, <2>7, <2>8 DEF Turn
<1>4. CASE Person
  <2>1. HandedOf("cli")' /\ Stays(Processes \ {"cli"}) /\ UNCHANGED <<out, proved, jar>>
    BY <1>1, <1>4 DEF Person, HandedOf, Stays, Typed
  <2> QED
    BY <1>1, <2>1, InHandLogs
<1>5. ASSUME NEW p \in Loggers, LogsIn(p) \/ Refused(p) \/ Crash(p)
      PROVE  InHand'
  <2>1. CASE GiveUp(p) /\ Drop(p) /\ jar' = jar
    <3>1. HandedOf(p)' /\ at'[p] # "persist"
      BY <2>1, GiveUpMoves DEF HandedOf
    <3> QED
      BY <2>1, <3>1, GiveUpMoves, DropLeaves, InHandLogs
  <2>2. CASE Accept(p)
    <3>1. /\ out'[p] = issued + 1 /\ proved'[p] = issued + 1 /\ base' = issued + 1
          /\ issued \in Nat /\ at'[p] = "write" /\ jar' = jar
          /\ \A q \in Processes \ {p} : at'[q] = at[q]
          /\ \A q \in Loggers \ {p} : out'[q] = out[q] /\ proved'[q] = proved[q]
      BY <1>1, <2>2 DEF Accept, Typed
    <3>2. HandedOf(p)'
      BY <3>1 DEF HandedOf
    <3> QED
      BY <3>1, <3>2, InHandLogs DEF Stays
  <2>3. CASE Truncate(p) \/ Fill(p)
    <3>1. /\ at[p] \in {"write", "fill"} /\ at'[p] \notin {"persist"}
          /\ out' = out /\ proved' = proved /\ (p = "cli" => jar' = jar)
          /\ \A q \in Processes \ {p} : at'[q] = at[q]
      BY <1>1, <2>3 DEF Truncate, Fill, TakesIt, Typed, login
    <3>2. HandedOf(p)'
      BY <3>1, HandedStays DEF InHand
    <3> QED
      BY <3>1, <3>2, InHandLogs DEF Stays
  <2>4. CASE Refused(p)
    BY <2>4, InHandStays DEF Refused
  <2>5. CASE Record(p) \/ Crash(p)
    <3>1. CASE GiveUp(p) /\ Record(p)
      BY <2>1, <3>1 DEF Record
    <3>2. CASE (Record(p) /\ at' = [at EXCEPT ![p] = "pull"]) \/ Crash(p)
      <4>1. /\ at'[p] \in {"pull", "idle", "off"} /\ Drop(p) /\ (p = "cli" => jar' = jar)
            /\ \A q \in Processes \ {p} : at'[q] = at[q]
        BY <1>1, <3>2 DEF Record, Crash, Typed
      <4>2. HandedOf(p)'
        BY <4>1 DEF HandedOf
      <4> QED
        BY <4>1, <4>2, DropLeaves, InHandLogs DEF Stays
    <3> QED
      BY <2>5, <3>1, <3>2 DEF Record
  <2> QED
    BY <1>5, <2>1, <2>2, <2>3, <2>4, <2>5 DEF LogsIn, Exhausted, SaveFails, RecordFails
<1>6. CASE AtWork
  BY <1>1, <1>6, TasksLeave, HandedStays, SavingStays DEF InHand, login
<1>7. CASE Copied
  <2>1. HandedOf("cli")' /\ Stays(Processes \ {"cli"}) /\ UNCHANGED <<out, proved, jar>>
    BY <1>1, <1>7 DEF Copied, HandedOf, Stays, Typed, login
  <2> QED
    BY <1>1, <2>1, InHandLogs
<1> QED
  BY <1>2, <1>3, <1>4, <1>5, <1>6, <1>7 DEF Next

LEMMA InHandAlways == Spec => []InHand
<1>1. Init => InHand
  BY DEF Init, InHand, Saving, HandedOf, Processes, Loggers
<1>2. TypeOK /\ InHand /\ [Next]_vars => InHand'
  BY InHandKept, TypedIsTypeOK
<1> QED
  BY <1>1, <1>2, TypeCorrect, PTL DEF Spec

\* A session BigSeller does not accept is written over the file only by a
\* login or a save that was overtaken: what ended it came after its proof.
THEOREM DeadOnlyIfLate == Spec => DeadOnlyIfOvertaken
<1>1. ASSUME TypeOK, InHand
      PROVE  \A p \in Loggers :
                at[p] = "fill" /\ file' = out[p] /\ ~Accepted(out[p])
                => proved[p] \in 1 .. base - 1
  <2> SUFFICES ASSUME NEW p \in Loggers, at[p] = "fill", ~Accepted(out[p])
               PROVE  proved[p] \in 1 .. base - 1
    OBVIOUS
  <2>1. proved[p] \in 1 .. base /\ out[p] >= proved[p]
    BY <1>1 DEF InHand, HandedOf
  <2>2. out[p] \in Nat /\ base \in Nat
    BY <1>1 DEF TypeOK, Jars
  <2> QED
    BY <2>1, <2>2 DEF Accepted
<1> QED
  BY <1>1, TypeCorrect, InHandAlways, PTL DEF DeadOnlyIfOvertaken

-----------------------------------------------------------------------------
(* What the worker's logins are for.                                       *)

LEMMA NoMore == \A x, y \in Int : x <= 1 /\ y <= x => y <= 1
OBVIOUS

\* The logins and what is due grow no faster than what was spent and robbed.
LEMMA PaidGrows ==
    ASSUME Typed, Typed', Paid, auto' = auto,
           auto => logins' + Due' - Cost' <= logins + Due - Cost,
           ~auto => logins' = logins
    PROVE  Paid'
<1>1. Due \in Int /\ Due' \in Int
  BY DEF Due
<1>2. /\ logins \in Int /\ logins' \in Int
      /\ Cost \in Int /\ Cost' \in Int
  BY SessionAssumption DEF Typed, Cost
<1>3. CASE auto
  <2>1. logins + Due - Cost <= 1 /\ logins' + Due' - Cost' <= logins + Due - Cost
    BY <1>3 DEF Paid
  <2>2. logins + Due - Cost \in Int /\ logins' + Due' - Cost' \in Int
    BY <1>1, <1>2
  <2>3. logins' + Due' - Cost' <= 1
    BY <2>1, <2>2, NoMore, Zenon
  <2> QED
    BY <1>3, <2>3 DEF Paid
<1>4. CASE ~auto
  BY <1>4 DEF Paid
<1> QED
  BY <1>3, <1>4

LEMMA Sums ==
    \A l, d, d1, t \in Int :
        /\ d1 <= d => l + d1 - t <= l + d - t
        /\ d1 <= d + 1 => l + d1 - (t + 1) <= l + d - t
        /\ d1 <= d - 1 => l + 1 + d1 - t <= l + d - t
OBVIOUS

\* What a step pays with, and what it gets for it.
LEMMA PaidFor ==
    ASSUME Typed, Typed', Paid, auto' = auto,
           \/ logins' = logins /\ Cost' = Cost /\ Due' <= Due
           \/ logins' = logins /\ Cost' = Cost + 1 /\ Due' <= Due + 1
           \/ auto /\ logins' = logins + 1 /\ Cost' = Cost /\ Due' <= Due - 1
    PROVE  Paid'
<1>1. logins \in Int /\ Cost \in Int
  BY SessionAssumption DEF Typed, Cost
<1>2. Due \in Int /\ Due' \in Int
  BY DEF Due
<1>3. /\ Due' <= Due => logins + Due' - Cost <= logins + Due - Cost
      /\ Due' <= Due + 1 => logins + Due' - (Cost + 1) <= logins + Due - Cost
      /\ Due' <= Due - 1 => logins + 1 + Due' - Cost <= logins + Due - Cost
  BY <1>1, <1>2, Sums, Zenon
<1>4. CASE logins' = logins /\ Cost' = Cost /\ Due' <= Due
  <2>1. logins' + Due' - Cost' = logins + Due' - Cost
    BY <1>4, Zenon
  <2> QED
    BY <1>3, <1>4, <2>1, PaidGrows, Zenon
<1>5. CASE logins' = logins /\ Cost' = Cost + 1 /\ Due' <= Due + 1
  <2>1. logins' + Due' - Cost' = logins + Due' - (Cost + 1)
    BY <1>5, Zenon
  <2> QED
    BY <1>3, <1>5, <2>1, PaidGrows, Zenon
<1>6. CASE auto /\ logins' = logins + 1 /\ Cost' = Cost /\ Due' <= Due - 1
  <2>1. logins' + Due' - Cost' = logins + 1 + Due' - Cost
    BY <1>6, Zenon
  <2> QED
    BY <1>3, <1>6, <2>1, PaidGrows, Zenon
<1> QED
  BY <1>4, <1>5, <1>6

\* A step of anybody but BigSeller costs what it spends.
LEMMA CostIsSpent ==
    ASSUME Typed, robbed' = robbed
    PROVE  /\ spent' = spent => Cost' = Cost
           /\ spent' = spent + 1 => Cost' = Cost + 1
BY SessionAssumption DEF Typed, Cost

\* A step that costs nothing, and wants nothing that was not wanted before.
LEMMA PaidStays ==
    ASSUME Typed, Typed', Paid, auto' = auto, robbed' = robbed,
           logins' = logins, spent' = spent \/ spent' = spent + 1,
           auto /\ Needs' => Needs, at'["cli"] = "login" => at["cli"] = "login"
    PROVE  Paid'
<1>1. CASE auto
  <2>1. Due' <= Due /\ Due' <= Due + 1
    BY <1>1 DEF Due
  <2> QED
    BY <2>1, PaidFor, CostIsSpent
<1>2. CASE ~auto
  BY <1>2 DEF Paid
<1> QED
  BY <1>1, <1>2

\* One that costs something, and may leave the worker without a session.
LEMMA PaidSpends ==
    ASSUME Typed, Typed', Paid, auto' = auto, robbed' = robbed,
           logins' = logins, spent' = spent + 1,
           at'["cli"] = "login" => at["cli"] = "login"
    PROVE  Paid'
<1>1. Due' <= Due + 1
  BY DEF Due
<1> QED
  BY <1>1, PaidFor, CostIsSpent

\* The worker's part is as it was.
LEMMA WorkerStays ==
    ASSUME Typed, Typed', LoginInv, auto' = auto, base' >= base,
           at'["worker"] = at["worker"], jar'["worker"] = jar["worker"], back' = back,
           out'["worker"] = out["worker"]
    PROVE  /\ ComingIsNewer' /\ LoginWanted' /\ OffIsOut'
           /\ base' = base => (Needs' <=> Needs)
<1>1. jar["worker"] \in Nat /\ base \in Nat /\ base' \in Nat
  BY DEF Typed, Jars, Clients
<1> QED
  BY <1>1 DEF LoginInv, ComingIsNewer, LoginWanted, OffIsOut, Coming, Needs

\* The worker stands where no session is on the way.
LEMMA NotComing ==
    ASSUME at'["worker"] \notin {"write", "fill", "login", "off"}
    PROVE  /\ ComingIsNewer' /\ LoginWanted' /\ OffIsOut'
           /\ Needs' <=> jar'["worker"] < base'
BY DEF ComingIsNewer, LoginWanted, OffIsOut, Coming, Needs

\* A step of the worker in its turn, that leaves it with what it had.
LEMMA TurnPays ==
    ASSUME Typed, Typed', LoginInv, auto' = auto, logins' = logins, robbed' = robbed,
           spent' = spent \/ spent' = spent + 1,
           at["worker"] \notin {"write", "fill"},
           at'["worker"] \notin {"write", "fill", "login", "off"}, at'["cli"] = at["cli"],
           base' = base, jar'["worker"] = jar["worker"] \/ jar'["worker"] >= base
    PROVE  LoginInv'
<1>1. jar["worker"] < base => Needs
  BY DEF Needs, Coming
<1>2. jar["worker"] \in Nat /\ jar'["worker"] \in Nat /\ base \in Nat
  BY DEF Typed, Jars, Clients
<1>3. Needs' => Needs
  BY <1>1, <1>2, NotComing
<1> QED
  BY <1>3, NotComing, PaidStays DEF LoginInv

LEMMA ReloginPays ==
    ASSUME Typed, Typed', LoginInv, auto' = auto, NEW why \in {"probe", "pull"},
           at["worker"] \in {"probe", "pull"}, ~Accepted(jar["worker"]), Relogin(why)
    PROVE  LoginInv'
<1>1. /\ "worker" \in Processes /\ "cli" \in Processes /\ "worker" \in Clients
      /\ "cli" # "worker"
  BY DEF Processes, Loggers, Clients
<1>2. UNCHANGED <<bigseller, jar, counts>>
  BY DEF Relogin
<1>3. CASE ~auto /\ NoLogin(why)
  BY <1>1, <1>2, <1>3, NoLoginMoves, TurnPays DEF Stays, bigseller, counts
<1>4. CASE auto /\ at' = [at EXCEPT !["worker"] = "login"]
  <2>1. at'["worker"] = "login" /\ at'["cli"] = at["cli"] /\ back' = why
    BY <1>1, <1>4 DEF Typed, Relogin
  <2>2. Needs
    BY <1>1 DEF Needs, Coming, Accepted, Typed, Jars
  <2>3. ComingIsNewer' /\ LoginWanted' /\ OffIsOut'
    BY <1>4, <2>1 DEF ComingIsNewer, LoginWanted, OffIsOut, Coming
  <2> QED
    BY <1>2, <2>1, <2>2, <2>3, PaidStays DEF LoginInv, counts
<1> QED
  BY <1>3, <1>4 DEF Relogin

\* BigSeller forgets jars: when the worker's is one of them, it is robbed.
LEMMA ForgetPays ==
    ASSUME Typed, Typed', LoginInv, Forget, auto' = auto, base' >= base
    PROVE  LoginInv'
<1>1. /\ UNCHANGED <<at, jar, out, back, logins, spent>>
      /\ base \in Nat /\ base' \in Nat /\ robbed \in Nat
      /\ jar["worker"] \in Nat /\ out["worker"] \in Nat
  BY DEF Forget, login, turn, Typed, Jars, Clients, Loggers
<1>2. ComingIsNewer' /\ LoginWanted' /\ OffIsOut'
  BY <1>1 DEF LoginInv, ComingIsNewer, LoginWanted, OffIsOut, Coming
<1>3. Needs <=> at["worker"] = "login" \/ Held < base
  BY DEF Needs, Coming, Held
<1>4. Needs' <=> at["worker"] = "login" \/ Held < base'
  BY <1>1 DEF Needs, Coming, Held
<1>5. Held \in Nat /\ base \in Nat /\ base' \in Nat /\ base' >= base
  BY <1>1 DEF Held
<1>6. CASE Held \in base .. base' - 1
  <2>1. robbed' = robbed + 1
    BY <1>6 DEF Forget
  <2>2. Cost' = Cost + 1
    BY <1>1, <2>1, SessionAssumption DEF Cost, Typed
  <2>3. Due' <= Due + 1
    BY <1>1 DEF Due
  <2> QED
    BY <1>1, <1>2, <2>2, <2>3, PaidFor DEF LoginInv
<1>7. CASE Held \notin base .. base' - 1
  <2>1. robbed' = robbed
    BY <1>7 DEF Forget
  <2>2. Needs' => Needs
    <3>1. Held < base' => Held < base
      <4>1. \A x, y, z \in Nat : x \notin y .. z - 1 /\ x < z => x < y
        OBVIOUS
      <4> QED
        BY <1>5, <1>7, <4>1, Zenon
    <3> QED
      BY <1>3, <1>4, <3>1, Zenon
  <2> QED
    BY <1>1, <1>2, <2>1, <2>2, PaidStays DEF LoginInv
<1> QED
  BY <1>6, <1>7

LEMMA OnlyForgetRobs ==
    ASSUME Typed, [Next]_vars, ~Forget
    PROVE  robbed' = robbed
<1>1. CASE Turn \/ BeginTurn("cancel")
  BY <1>1 DEF Turn, Start, BeginTurn, ProbeActive, ProbeExpired, ProbeFails, Pulled,
     PullExpired, PullGivenUp, PullFails, Snapshot, Answered, Relogin, Disturb, counts
<1>2. ASSUME NEW p \in Loggers, LogsIn(p) \/ Refused(p) \/ Crash(p)
      PROVE  robbed' = robbed
  BY <1>2 DEF LogsIn, Exhausted, Accept, Truncate, Fill, SaveFails, Record, RecordFails,
     Refused, Crash, Disturb, counts
<1>3. CASE AtWork
  BY <1>3, TasksLeave
<1>4. CASE UNCHANGED vars \/ EndedElsewhere \/ Person \/ Copied
  BY <1>4 DEF vars, moving, EndedElsewhere, Person, Copied, Disturb, counts
<1> QED
  BY <1>1, <1>2, <1>3, <1>4 DEF Next

LEMMA LoginsKept ==
    ASSUME Typed, LoginInv, [Next]_vars
    PROVE  LoginInv'
<1>1. /\ "worker" \in Loggers /\ "cli" \in Loggers /\ "worker" # "cli"
      /\ Loggers \subseteq Processes /\ "worker" \in Clients
      /\ Loggers = {"worker", "cli"}
  BY DEF Loggers, Processes, Clients
<1>2. Typed' /\ base' >= base
  BY NextTyped, BaseGrows
<1>3. auto' = auto
  BY DEF Next, vars
<1>4. /\ issued \in Nat /\ base \in Nat /\ base <= issued + 1 /\ jar["worker"] \in Nat
      /\ jar["worker"] <= issued /\ out["worker"] \in Nat /\ base > 0
  BY <1>1 DEF Typed, Jars
<1>5. CASE UNCHANGED vars
  BY <1>2, <1>5, WorkerStays, PaidStays
     DEF vars, moving, login, turn, bigseller, counts, LoginInv
<1>6. CASE EndedElsewhere
  BY <1>2, <1>3, <1>6, WorkerStays, PaidSpends
     DEF EndedElsewhere, Disturb, login, turn, LoginInv
<1>7. CASE Forget
  BY <1>2, <1>3, <1>7, ForgetPays
<1> SUFFICES ASSUME ~Forget
             PROVE  LoginInv'
  BY <1>7
<1>14. robbed' = robbed
  BY OnlyForgetRobs
<1>8. CASE Turn \/ BeginTurn("cancel")
  <2>1. CASE Start
    <3>1. at'["worker"] = "idle" /\ at'["cli"] = at["cli"] /\ UNCHANGED counts
      BY <1>1, <2>1 DEF Start, Typed
    <3>2. Needs
      BY <2>1 DEF Start, Needs, Coming, LoginInv, OffIsOut
    <3> QED
      BY <1>14, <1>2, <1>3, <3>1, <3>2, NotComing, PaidStays DEF LoginInv, counts
  <2>2. CASE BeginTurn("new") \/ BeginTurn("cancel")
    BY <1>14, <1>1, <1>2, <1>3, <2>2, GoMoves, TurnPays
       DEF BeginTurn, Stays, counts, bigseller
  <2>3. ASSUME Answered("worker")
        PROVE  /\ logins' = logins /\ spent' = spent /\ base' = base
               /\ jar'["worker"] = jar["worker"] \/ jar'["worker"] >= base
    BY <1>1, <1>4, <2>3 DEF Answered, Rotates, Typed
  <2>4. CASE ProbeActive
    BY <1>14, <1>1, <1>2, <1>3, <2>3, <2>4, GoMoves, TurnPays DEF ProbeActive, Stays
  <2>5. CASE ProbeExpired \/ PullExpired
    BY <1>14, <1>2, <1>3, <2>5, ReloginPays DEF ProbeExpired, PullExpired
  <2>6. CASE ProbeFails
    BY <1>14, <1>1, <1>2, <1>3, <2>6, GoMoves, TurnPays
       DEF ProbeFails, Stays, Disturb, bigseller
  <2>7. CASE Pulled
    BY <1>14, <1>1, <1>2, <1>3, <2>3, <2>7, EndedMoves, TurnPays DEF Pulled, Stays
  <2>8. CASE PullGivenUp
    BY <1>14, <1>1, <1>2, <1>3, <2>8, EndedMoves, TurnPays
       DEF PullGivenUp, Stays, counts, bigseller
  <2>9. CASE PullFails
    BY <1>14, <1>1, <1>2, <1>3, <2>9, EndedMoves, TurnPays
       DEF PullFails, Stays, Disturb, bigseller
  <2>10. CASE Snapshot
    <3>1. /\ at'["worker"] = "write" /\ at'["cli"] = at["cli"] /\ back' = "persist"
          /\ UNCHANGED <<bigseller, jar, counts>>
      BY <1>1, <2>10 DEF Snapshot, Typed
    <3>2. ComingIsNewer' /\ LoginWanted' /\ OffIsOut' /\ (Needs' => Needs)
      BY <2>10, <3>1 DEF ComingIsNewer, LoginWanted, OffIsOut, Coming, Needs, Snapshot,
         bigseller
    <3> QED
      BY <1>14, <1>2, <1>3, <3>1, <3>2, PaidStays DEF LoginInv, counts
  <2> QED
    BY <1>8, <2>1, <2>2, <2>4, <2>5, <2>6, <2>7, <2>8, <2>9, <2>10 DEF Turn
<1>9. CASE Person
  <2>1. /\ at'["worker"] = at["worker"] /\ UNCHANGED <<bigseller, jar, out, back, logins>>
        /\ spent' = spent + 1 /\ at["cli"] # "login"
    BY <1>1, <1>9 DEF Person, Disturb, turn, Typed
  <2>2. ComingIsNewer' /\ LoginWanted' /\ OffIsOut' /\ (Needs' <=> Needs)
    BY <1>2, <1>3, <2>1, WorkerStays DEF bigseller
  <2>3. Due' <= Due + 1
    BY <2>1, <2>2 DEF Due
  <2>4. Paid'
    BY <1>14, <1>2, <1>3, <2>1, <2>3, PaidFor, CostIsSpent DEF LoginInv
  <2> QED
    BY <2>2, <2>4 DEF LoginInv
<1>10. CASE \E p \in Loggers : Refused(p)
  BY <1>14, <1>2, <1>3, <1>10, WorkerStays, PaidStays
     DEF Refused, turn, bigseller, counts, LoginInv
<1>11. CASE LogsIn("worker") \/ Crash("worker")
  <2>1. ASSUME GiveUp("worker"), UNCHANGED <<bigseller, jar>>, logins' = logins,
               \/ spent' = spent + 1
               \/ spent' = spent /\ at["worker"] \in {"login", "record"}
        PROVE  LoginInv'
    <3>1. at'["worker"] \in {"pull", "idle"} /\ at'["cli"] = at["cli"]
      BY <1>1, <2>1, GiveUpMoves DEF Stays
    <3>2. CASE spent' = spent + 1
      BY <1>14, <1>2, <1>3, <2>1, <3>1, <3>2, NotComing, PaidSpends DEF LoginInv
    <3>3. CASE spent' = spent /\ at["worker"] \in {"login", "record"}
      BY <1>14, <1>2, <1>3, <2>1, <3>1, <3>3, TurnPays DEF bigseller
    <3> QED
      BY <2>1, <3>2, <3>3
  <2>2. CASE Exhausted("worker") \/ SaveFails("worker") \/ RecordFails("worker")
    BY <2>1, <2>2 DEF Exhausted, SaveFails, RecordFails, Disturb, counts
  <2>3. CASE Accept("worker")
    <3>1. /\ at["worker"] = "login" /\ at'["worker"] = "write" /\ at'["cli"] = at["cli"]
          /\ base' = issued + 1 /\ out'["worker"] = issued + 1 /\ jar' = jar /\ back' = back
          /\ logins' = logins + 1 /\ spent' = spent
      BY <1>1, <2>3 DEF Accept, turn, Typed
    <3>2. auto /\ back # "persist"
      BY <3>1 DEF LoginInv, LoginWanted
    <3>3. ComingIsNewer' /\ LoginWanted' /\ OffIsOut'
      BY <1>4, <3>1 DEF ComingIsNewer, LoginWanted, OffIsOut, Coming
    <3>4. Needs /\ ~Needs'
      BY <1>4, <3>1, <3>2 DEF Needs, Coming
    <3>5. Due' <= Due - 1
      BY <3>1, <3>4 DEF Due
    <3>6. Paid'
      BY <1>14, <1>2, <1>3, <3>1, <3>2, <3>5, PaidFor, CostIsSpent DEF LoginInv
    <3> QED
      BY <3>3, <3>6 DEF LoginInv
  <2>4. CASE Truncate("worker") \/ Fill("worker")
    <3>1. /\ at["worker"] \in {"write", "fill"} /\ at'["cli"] = at["cli"]
          /\ UNCHANGED <<bigseller, out, back, counts>>
      BY <1>1, <2>4 DEF Truncate, Fill, login, turn, Typed
    <3>2. CASE Truncate("worker")
      <4>1. at'["worker"] = "fill" /\ jar' = jar
        BY <1>1, <3>2 DEF Truncate, Typed
      <4>2. ComingIsNewer' /\ LoginWanted' /\ OffIsOut' /\ (Needs' => Needs)
        BY <3>1, <4>1 DEF LoginInv, ComingIsNewer, LoginWanted, OffIsOut, Coming, Needs,
           bigseller
      <4> QED
        BY <1>14, <1>2, <1>3, <3>1, <4>1, <4>2, PaidStays DEF LoginInv, counts
    <3>3. CASE Fill("worker")
      <4>1. at'["worker"] = "record"
            /\ jar'["worker"] = IF back = "persist" THEN jar["worker"] ELSE out["worker"]
        BY <1>1, <3>3 DEF Fill, TakesIt, Typed
      <4>2. Needs' => Needs
        BY <3>1, <4>1, NotComing DEF Needs, Coming, bigseller
      <4> QED
        BY <1>14, <1>2, <1>3, <3>1, <4>1, <4>2, NotComing, PaidStays
           DEF LoginInv, counts
    <3> QED
      BY <2>4, <3>2, <3>3
  <2>5. CASE Record("worker")
    <3>1. CASE GiveUp("worker")
      BY <2>1, <2>5, <3>1 DEF Record, counts
    <3>2. CASE at' = [at EXCEPT !["worker"] = "pull"]
      <4>1. at'["worker"] = "pull" /\ at'["cli"] = at["cli"]
        BY <1>1, <3>2 DEF Typed
      <4> QED
        BY <1>14, <1>2, <1>3, <2>5, <4>1, TurnPays DEF Record, counts, bigseller
    <3> QED
      BY <2>5, <3>1, <3>2 DEF Record
  <2>6. CASE Crash("worker")
    <3>1. /\ at'["worker"] = "off" /\ at'["cli"] = at["cli"] /\ jar'["worker"] = 0
          /\ logins' = logins /\ spent' = spent + 1 /\ base' = base
      BY <1>1, <2>6 DEF Crash, Disturb, bigseller, Typed
    <3>2. ComingIsNewer' /\ LoginWanted' /\ OffIsOut'
      BY <1>4, <3>1 DEF ComingIsNewer, LoginWanted, OffIsOut, Coming
    <3> QED
      BY <1>14, <1>2, <1>3, <3>1, <3>2, PaidSpends DEF LoginInv
  <2> QED
    BY <1>11, <2>2, <2>3, <2>4, <2>5, <2>6 DEF LogsIn
<1>12. CASE LogsIn("cli") \/ Crash("cli")
  <2>1. /\ at'["worker"] = at["worker"] /\ at'["cli"] # "login"
        /\ jar'["worker"] = jar["worker"]
        /\ back' = back /\ out'["worker"] = out["worker"] /\ logins' = logins
    <3>1. CASE GiveUp("cli") /\ Drop("cli") /\ jar' = jar /\ logins' = logins
      BY <1>1, <3>1, GiveUpMoves, DropLeaves DEF Stays
    <3>2. CASE Exhausted("cli") \/ SaveFails("cli") \/ RecordFails("cli") \/ Record("cli")
      BY <3>1, <3>2 DEF Exhausted, SaveFails, RecordFails, Record, Disturb, counts
    <3>3. CASE Accept("cli") \/ Truncate("cli") \/ Fill("cli")
      BY <1>1, <3>3 DEF Accept, Truncate, Fill, TakesIt, login, turn, counts, Typed
    <3>4. CASE Crash("cli")
      BY <1>1, <3>4, DropLeaves DEF Crash, Disturb, Typed
    <3> QED
      BY <1>12, <3>2, <3>3, <3>4 DEF LogsIn
  <2>2. ComingIsNewer' /\ LoginWanted' /\ OffIsOut' /\ (base' = base => (Needs' <=> Needs))
    BY <1>2, <1>3, <2>1, WorkerStays
  <2>3. CASE Accept("cli")
    <3>1. at["cli"] = "login" /\ spent' = spent
      BY <2>3 DEF Accept
    <3>3. Due' <= Due
      BY <2>1, <3>1 DEF Due
    <3>4. Paid'
      BY <1>14, <1>2, <1>3, <2>1, <3>1, <3>3, PaidFor, CostIsSpent DEF LoginInv
    <3> QED
      BY <2>2, <3>4 DEF LoginInv
  <2>4. CASE base' = base /\ (spent' = spent \/ spent' = spent + 1)
    BY <1>14, <1>2, <1>3, <2>1, <2>2, <2>4, PaidStays DEF LoginInv
  <2> QED
    BY <1>12, <2>3, <2>4 DEF LogsIn, Exhausted, Truncate, Fill, SaveFails, Record,
       RecordFails, Crash, Disturb, counts, bigseller
<1>13. CASE AtWork
  BY <1>14, <1>1, <1>2, <1>3, <1>13, TasksLeave, WorkerStays, PaidStays
     DEF LoginInv, login, turn
<1>15. CASE Copied
  <2>1. /\ at'["worker"] = at["worker"] /\ at'["cli"] # "login"
        /\ UNCHANGED <<bigseller, jar, login, turn, counts>>
    BY <1>1, <1>15 DEF Copied, Typed
  <2> QED
    BY <1>14, <1>2, <1>3, <2>1, WorkerStays, PaidStays
       DEF LoginInv, bigseller, login, turn, counts
<1> QED
  BY <1>1, <1>5, <1>6, <1>8, <1>9, <1>10, <1>11, <1>12, <1>13, <1>15 DEF Next

LEMMA LoginInvAlways == Spec => []LoginInv
<1>1. Init => LoginInv
  <2> SUFFICES ASSUME Init PROVE LoginInv
    OBVIOUS
  <2>1. at["worker"] = "off" /\ at["cli"] = "idle" /\ jar["worker"] = 0
    BY DEF Init, Processes, Loggers, Clients
  <2>2. Due <= 1 /\ Due \in 0 .. 2
    BY <2>1 DEF Due
  <2> QED
    BY <2>1, <2>2
       DEF Init, LoginInv, ComingIsNewer, LoginWanted, OffIsOut, Coming, Paid, Cost
<1>2. TypeOK /\ LoginInv /\ [Next]_vars => LoginInv'
  BY LoginsKept, TypedIsTypeOK
<1> QED
  BY <1>1, <1>2, TypeCorrect, PTL DEF Spec

\* The inductive invariant: types, what is in hand, and the account of logins.
THEOREM InvariantHolds == Spec => []IInv
BY TypeCorrect, InHandAlways, LoginInvAlways, PTL DEF IInv

\* The worker logs in once, and then once for each session that ended, was lost,
\* or was replaced in an answer to somebody else and forgotten.
THEOREM EveryLoginHasACause == Spec => []LoginsHaveACause
<1>1. TypeOK /\ LoginInv => LoginsHaveACause
  <2> SUFFICES ASSUME TypeOK, LoginInv PROVE LoginsHaveACause
    OBVIOUS
  <2>1. Due \in 0 .. 2 /\ logins \in Nat /\ spent \in Nat /\ robbed \in Nat
    BY SessionAssumption DEF Due, TypeOK
  <2> QED
    BY <2>1 DEF LoginInv, Paid, Cost, LoginsHaveACause
<1> QED
  BY <1>1, TypeCorrect, LoginInvAlways, PTL
=============================================================================
