------------------------- MODULE GitMigrationProofs -------------------------
(***************************************************************************)
(* GitMigration: type correctness, and that no migration loses what had    *)
(* been acknowledged before the first of them, for every set of requests,  *)
(* migrations and remotes.                                                 *)
(***************************************************************************)
EXTENDS GitMigration, TLAPS

AllStages == Stages \cup {"assign", "compare", "pull", "reload"}

LEMMA GoesType ==
    ASSUME TypeOK, NEW a \in Actors \cup {Timer}, NEW from, NEW to \in AllStages,
           Goes(a, from, to)
    PROVE  pc' \in [Actors \cup {Timer} -> AllStages]
BY DEF TypeOK, Goes, AllStages

LEMMA AnswerType ==
    ASSUME TypeOK, NEW a \in Actors, NEW from, NEW result \in {"ok", "error"},
           Answer(a, from, result)
    PROVE  /\ pc' \in [Actors \cup {Timer} -> AllStages]
           /\ outcome' \in [Actors -> {"none", "ok", "error", "lost"}]
           /\ sessions' \subseteq Actors
           /\ worktree' \in [Actors -> Checkout \cup {None}]
           /\ UNCHANGED <<read, attempt, course, before>>
<1>1. pc' \in [Actors \cup {Timer} -> AllStages]
  BY GoesType DEF Answer, AllStages, Stages
<1> QED
  BY <1>1 DEF Answer, initVars, TypeOK

LEMMA RestartedType ==
    ASSUME TypeOK, Restarted,
           failures' \in 0..MaxFailures, restarts' \in 0..MaxRestarts
    PROVE  TypeOK'
<1>1. pc' \in [Actors \cup {Timer} -> AllStages]
  BY DEF Restarted, AllStages, Stages
<1>2. outcome' \in [Actors -> {"none", "ok", "error", "lost"}]
  BY DEF Restarted, TypeOK
<1>3. worktree' \in [Actors -> Checkout \cup {None}]
  BY DEF Restarted
<1>4. clone' \in Checkout \cup {None}
  BY DEF Restarted, TypeOK, Checkout
<1>5. attempt' \in [Movers -> 1..MaxAttempts] /\ read' \in [Movers -> Remotes]
  BY MigrationAssumption DEF Restarted
<1> QED
  BY <1>1, <1>2, <1>3, <1>4, <1>5 DEF Restarted, TypeOK, AllStages

LEMMA PushType ==
    ASSUME Inductive
    PROVE  /\ \A s \in Requests : worktree[s] # None =>
                 Pushed(s) \in [Remotes -> (SUBSET Requests) \cup {Empty}]
           /\ \A m \in Migrations : MayPush(m) =>
                 PushedNew(m) \in [Remotes -> (SUBSET Requests) \cup {Empty}]
<1>1. TypeOK
  BY DEF Inductive
<1>2. \A a \in Actors : worktree[a] # None =>
          /\ worktree[a] \in Checkout
          /\ worktree[a].head \in SUBSET Requests
          /\ remote[worktree[a].of] \in SUBSET Requests
  BY <1>1 DEF Inductive, TypeOK, Checkout
<1>3. ASSUME NEW s \in Requests, worktree[s] # None
      PROVE  Pushed(s) \in [Remotes -> (SUBSET Requests) \cup {Empty}]
  BY <1>1, <1>2, <1>3 DEF Pushed, TypeOK, Actors, Checkout
<1>4. ASSUME NEW m \in Migrations, MayPush(m)
      PROVE  PushedNew(m) \in [Remotes -> (SUBSET Requests) \cup {Empty}]
  BY <1>1, <1>2, <1>4 DEF PushedNew, MayPush, TypeOK, Actors, Checkout
<1> QED
  BY <1>3, <1>4

LEMMA ThrowsType ==
    ASSUME TypeOK, NEW p \in Movers, NEW from, Throws(p, from)
    PROVE  TypeOK'
<1>1. failures' \in 0..MaxFailures /\ restarts' \in 0..MaxRestarts
  BY MigrationAssumption DEF Throws, Failure, TypeOK
<1>2. CASE p = Timer
  BY <1>1, <1>2, RestartedType DEF Throws
<1>3. CASE p # Timer
  <2>1. p \in Actors
    BY <1>3, MigrationAssumption DEF Movers, Switchers, Actors
  <2>2. Answer(p, from, "error")
    BY <1>3 DEF Throws
  <2>3. /\ pc' \in [Actors \cup {Timer} -> AllStages]
        /\ outcome' \in [Actors -> {"none", "ok", "error", "lost"}]
        /\ sessions' \subseteq Actors
        /\ worktree' \in [Actors -> Checkout \cup {None}]
        /\ UNCHANGED <<read, attempt, course, before>>
    BY <2>1, <2>2, AnswerType
  <2> QED
    BY <1>1, <1>3, <2>3 DEF Throws, TypeOK, apiVars, AllStages
<1> QED
  BY <1>2, <1>3

LEMMA MoverStages ==
    ASSUME NEW p \in Movers
    PROVE  /\ p \in Actors \cup {Timer}
           /\ p \in Actors => p \in Switchers /\ p # Timer
           /\ Onward(p) \in AllStages \ {"idle", "done", "finish"}
BY MigrationAssumption DEF Movers, Switchers, Actors, Onward, AllStages, Stages

LEMMA AttemptFailsType ==
    ASSUME TypeOK, NEW p \in Movers, AttemptFails(p)
    PROVE  TypeOK'
<1> p \in Actors \cup {Timer}
  BY MoverStages
<1>1. failures' \in 0..MaxFailures /\ restarts' \in 0..MaxRestarts
  BY MigrationAssumption DEF AttemptFails, Failure, TypeOK, bounds
<1>2. CASE attempt[p] = MaxAttempts
  BY <1>1, <1>2, RestartedType DEF AttemptFails
<1>3. CASE attempt[p] # MaxAttempts
  <2>1. Goes(p, pc[p], "retry")
    BY <1>3 DEF AttemptFails
  <2>2. pc' \in [Actors \cup {Timer} -> AllStages]
    BY <2>1, GoesType DEF AllStages, Stages
  <2>3. attempt[p] + 1 \in 1..MaxAttempts
    BY <1>3, MigrationAssumption DEF TypeOK
  <2>4. attempt' \in [Movers -> 1..MaxAttempts]
    BY <1>3, <2>3 DEF AttemptFails, TypeOK
  <2>5. course' \in {"straight", "retried", "met"}
    BY <1>3 DEF AttemptFails, TypeOK
  <2>6. \A head \in {remote[read[p]], Empty} : [of |-> read[p], head |-> head] \in Checkout
    BY DEF TypeOK, Checkout
  <2>7. clone' \in Checkout \cup {None}
    BY <1>3, <2>6 DEF AttemptFails, TypeOK
  <2>8. read' \in [Movers -> Remotes]
    BY <1>3, MigrationAssumption DEF AttemptFails, TypeOK
  <2> QED
    BY <1>1, <1>3, <2>2, <2>4, <2>5, <2>7, <2>8
       DEF AttemptFails, Attempting, TypeOK, AllStages
<1> QED
  BY <1>2, <1>3

\* What the steps of refreshGitClient write is of its kind.
LEMMA RefreshStepType ==
    ASSUME TypeOK, NEW p \in Movers, RefreshStep(p)
    PROVE  TypeOK'
<1> p \in Actors \cup {Timer} /\ Onward(p) \in AllStages
  BY MoverStages
<1>1. CASE LockFails(p)
  BY <1>1, ThrowsType DEF LockFails
<1>2. CASE Clean(p)
  <2>1. pc' \in [Actors \cup {Timer} -> AllStages]
    BY <1>2, GoesType DEF Clean, AllStages, Stages
  <2>2. course' \in {"straight", "retried", "met"} /\ read' \in [Movers -> Remotes]
    BY <1>2 DEF Clean, TypeOK
  <2> QED
    BY <1>2, <2>1, <2>2 DEF Clean, TypeOK, bounds, AllStages
<1>3. CASE Clone(p)
  <2>1. pc' \in [Actors \cup {Timer} -> AllStages]
    BY <1>3, GoesType DEF Clone, AllStages, Stages
  <2>2. clone' \in Checkout
    BY <1>3 DEF Clone, Origin, TypeOK, Checkout
  <2>3. read' \in [Movers -> Remotes]
    BY <1>3, MigrationAssumption DEF Clone, TypeOK
  <2> QED
    BY <1>3, <2>1, <2>2, <2>3 DEF Clone, Attempting, TypeOK, bounds, AllStages
<1>4. CASE Sync(p)
  <2>1. pc' \in [Actors \cup {Timer} -> AllStages]
    BY <1>4, GoesType DEF Sync, AllStages, Stages
  <2>2. clone' \in Checkout
    BY <1>4 DEF Sync, Pulled, TypeOK, Checkout
  <2>3. attempt' \in [Movers -> 1..MaxAttempts]
    BY <1>4, MigrationAssumption DEF Sync, TypeOK
  <2> QED
    BY <1>4, <2>1, <2>2, <2>3 DEF Sync, Attempting, TypeOK, bounds, AllStages
<1>5. CASE AttemptFails(p)
  BY <1>5, AttemptFailsType
<1>6. CASE Reread(p)
  <2>1. pc' \in [Actors \cup {Timer} -> AllStages]
    BY <1>6, GoesType DEF Reread, AllStages, Stages
  <2>2. read' \in [Movers -> Remotes]
    BY <1>6 DEF Reread, TypeOK
  <2> QED
    BY <1>6, <2>1, <2>2 DEF Reread, Attempting, TypeOK, bounds, AllStages
<1>7. CASE TakeOver(p)
  <2>1. pc' \in [Actors \cup {Timer} -> AllStages]
    BY <1>7, GoesType DEF TakeOver, AllStages, Stages
  <2> QED
    BY <1>7, <2>1 DEF TakeOver, Attempting, initVars, TypeOK, bounds, AllStages
<1>8. CASE Load(p)
  <2>1. pc' \in [Actors \cup {Timer} -> AllStages]
    BY <1>8, GoesType DEF Load
  <2> QED
    BY <1>8, <2>1 DEF Load, TypeOK, initVars, bounds, AllStages
<1>9. CASE UnlockFails(p)
  BY <1>9, ThrowsType DEF UnlockFails
<1> QED
  BY <1>1, <1>2, <1>3, <1>4, <1>5, <1>6, <1>7, <1>8, <1>9 DEF RefreshStep

LEMMA RefreshType ==
    ASSUME TypeOK, NEW p \in Movers, NEW from, Refresh(p, from)
    PROVE  pc' \in [Actors \cup {Timer} -> AllStages] /\ locked' \in BOOLEAN
<1> p \in Actors \cup {Timer} /\ Onward(p) \in AllStages /\ "lock" \in AllStages
  BY MoverStages DEF AllStages, Stages
<1> QED
  BY GoesType DEF Refresh, TypeOK

LEMMA WriteRequestType ==
    ASSUME Inductive, NEW a \in Actors,
           Admit(a) \/ Setup(a) \/ SetupFails(a) \/ (a \in Requests /\ Deployment(a))
    PROVE  TypeOK'
<1> TypeOK
  BY DEF Inductive
<1>1. CASE Admit(a)
  <2>1. pc' \in [Actors \cup {Timer} -> AllStages]
    BY <1>1, GoesType DEF Admit, AllStages, Stages
  <2> QED
    BY <1>1, <2>1 DEF Admit, Session, initVars, TypeOK, initVars, apiVars, bounds, AllStages
<1>2. CASE Setup(a)
  <2>1. pc' \in [Actors \cup {Timer} -> AllStages]
    BY <1>2, GoesType DEF Setup, AllStages, Stages
  <2>2. PICK c \in {clone, Pulled} : clone' = c /\ worktree' = [worktree EXCEPT ![a] = c]
    BY <1>2 DEF Setup
  <2>3. c \in Checkout
    BY <1>2, <2>2 DEF Setup, CheckedOut, Pulled, TypeOK, Checkout
  <2>4. worktree' \in [Actors -> Checkout \cup {None}]
    BY <2>2, <2>3 DEF TypeOK
  <2> QED
    BY <1>2, <2>1, <2>2, <2>3, <2>4 DEF Setup, Session, initVars, TypeOK, bounds, AllStages
<1>3. CASE SetupFails(a)
  <2>1. /\ pc' \in [Actors \cup {Timer} -> AllStages]
        /\ outcome' \in [Actors -> {"none", "ok", "error", "lost"}]
        /\ sessions' \subseteq Actors
        /\ worktree' \in [Actors -> Checkout \cup {None}]
        /\ UNCHANGED <<read, attempt, course, before>>
    BY <1>3, AnswerType DEF SetupFails
  <2> QED
    BY <1>3, <2>1 DEF SetupFails, TypeOK, initVars, apiVars, bounds, AllStages
<1>4. CASE a \in Requests /\ Save(a)
  <2>1. pc' \in [Actors \cup {Timer} -> AllStages]
    BY <1>4, GoesType DEF Save, AllStages, Stages
  <2>2. remote' \in [Remotes -> (SUBSET Requests) \cup {Empty}]
    BY <1>4, PushType DEF Save
  <2> QED
    BY <1>4, <2>1, <2>2 DEF Save, Session, initVars, TypeOK, initVars, bounds, AllStages
<1>5. CASE a \in Requests /\ SaveFails(a)
  <2>1. /\ pc' \in [Actors \cup {Timer} -> AllStages]
        /\ outcome' \in [Actors -> {"none", "ok", "error", "lost"}]
        /\ sessions' \subseteq Actors
        /\ worktree' \in [Actors -> Checkout \cup {None}]
        /\ UNCHANGED <<read, attempt, course, before>>
    BY <1>5, AnswerType DEF SaveFails
  <2>2. remote' \in [Remotes -> (SUBSET Requests) \cup {Empty}]
    BY <1>5, PushType DEF SaveFails, TypeOK
  <2> QED
    BY <1>5, <2>1, <2>2 DEF SaveFails, TypeOK, initVars, apiVars, bounds, AllStages
<1>6. CASE Finish(a)
  <2>1. /\ pc' \in [Actors \cup {Timer} -> AllStages]
        /\ outcome' \in [Actors -> {"none", "ok", "error", "lost"}]
        /\ sessions' \subseteq Actors
        /\ worktree' \in [Actors -> Checkout \cup {None}]
        /\ UNCHANGED <<read, attempt, course, before>>
    BY <1>6, AnswerType DEF Finish
  <2>2. clone' \in Checkout
    BY <1>6 DEF Finish, CheckedOut, Pulled, TypeOK, Checkout
  <2> QED
    BY <1>6, <2>1, <2>2 DEF Finish, TypeOK, initVars, bounds, AllStages
<1>7. CASE FinishFails(a)
  <2>1. /\ pc' \in [Actors \cup {Timer} -> AllStages]
        /\ outcome' \in [Actors -> {"none", "ok", "error", "lost"}]
        /\ sessions' \subseteq Actors
        /\ worktree' \in [Actors -> Checkout \cup {None}]
        /\ UNCHANGED <<read, attempt, course, before>>
    BY <1>7, AnswerType DEF FinishFails
  <2> QED
    BY <1>7, <2>1 DEF FinishFails, TypeOK, initVars, apiVars, bounds, AllStages
<1> QED
  BY <1>1, <1>2, <1>3, <1>4, <1>5, <1>6, <1>7 DEF Deployment

LEMMA SwitchType ==
    ASSUME Inductive, NEW p \in Switchers, Switch(p)
    PROVE  TypeOK'
<1> TypeOK
  BY DEF Inductive
<1> p \in Actors /\ p \in Movers /\ Target[p] \in Remotes
  BY MigrationAssumption DEF Actors, Movers, Switchers
<1>1. CASE StoreSecret(p)
  <2>1. pc' \in [Actors \cup {Timer} -> AllStages]
    BY <1>1, GoesType DEF StoreSecret, AllStages, Stages
  <2> QED
    BY <1>1, <2>1 DEF StoreSecret, TypeOK, initVars, apiVars, bounds, AllStages
<1>2. CASE StoreFails(p)
  <2>1. /\ pc' \in [Actors \cup {Timer} -> AllStages]
        /\ outcome' \in [Actors -> {"none", "ok", "error", "lost"}]
        /\ sessions' \subseteq Actors
        /\ worktree' \in [Actors -> Checkout \cup {None}]
        /\ UNCHANGED <<read, attempt, course, before>>
    BY <1>2, AnswerType DEF StoreFails
  <2> QED
    BY <1>2, <2>1 DEF StoreFails, TypeOK, apiVars, bounds, AllStages
<1>3. CASE SetConfig(p)
  <2>1. pc' \in [Actors \cup {Timer} -> AllStages] /\ locked' \in BOOLEAN
    BY <1>3, RefreshType DEF SetConfig
  <2> QED
    BY <1>3, <2>1 DEF SetConfig, TypeOK, initVars, bounds, AllStages
<1>4. CASE RefreshStep(p)
  BY <1>4, RefreshStepType
<1> QED
  BY <1>1, <1>2, <1>3, <1>4 DEF Switch

LEMMA MigrationType ==
    ASSUME Inductive, NEW m \in Migrations, Migration(m)
    PROVE  TypeOK'
<1> TypeOK
  BY DEF Inductive
<1> m \in Actors /\ m \in Switchers /\ Target[m] \in Remotes
  BY MigrationAssumption DEF Actors, Switchers
<1>1. CASE Test(m)
  <2>1. pc' \in [Actors \cup {Timer} -> AllStages]
    BY <1>1, GoesType DEF Test, AllStages, Stages
  <2> QED
    BY <1>1, <2>1 DEF Test, Session, initVars, TypeOK, initVars, apiVars, bounds, AllStages
<1>2. CASE TestFails(m)
  <2>1. /\ pc' \in [Actors \cup {Timer} -> AllStages]
        /\ outcome' \in [Actors -> {"none", "ok", "error", "lost"}]
        /\ sessions' \subseteq Actors
        /\ worktree' \in [Actors -> Checkout \cup {None}]
        /\ UNCHANGED <<read, attempt, course, before>>
    BY <1>2, AnswerType DEF TestFails
  <2> QED
    BY <1>2, <2>1 DEF TestFails, TypeOK, initVars, apiVars, bounds, AllStages
<1>3. CASE Name(m)
  <2>1. pc' \in [Actors \cup {Timer} -> AllStages]
    BY <1>3, GoesType DEF Name, AllStages, Stages
  <2> QED
    BY <1>3, <2>1 DEF Name, Session, initVars, TypeOK, initVars, apiVars, bounds, AllStages
<1>4. CASE NameFails(m)
  <2>1. /\ pc' \in [Actors \cup {Timer} -> AllStages]
        /\ outcome' \in [Actors -> {"none", "ok", "error", "lost"}]
        /\ sessions' \subseteq Actors
        /\ worktree' \in [Actors -> Checkout \cup {None}]
        /\ UNCHANGED <<read, attempt, course, before>>
    BY <1>4, AnswerType DEF NameFails
  <2> QED
    BY <1>4, <2>1 DEF NameFails, TypeOK, Unname, apiVars, bounds, AllStages
<1>5. CASE PushNew(m)
  <2>1. pc' \in [Actors \cup {Timer} -> AllStages]
    BY <1>5, GoesType DEF PushNew, AllStages, Stages
  <2>2. remote' \in [Remotes -> (SUBSET Requests) \cup {Empty}]
    BY <1>5, PushType DEF PushNew
  <2> QED
    BY <1>5, <2>1, <2>2 DEF PushNew, Session, initVars, TypeOK, initVars, bounds, AllStages
<1>6. CASE PushNewFails(m)
  <2>1. /\ pc' \in [Actors \cup {Timer} -> AllStages]
        /\ outcome' \in [Actors -> {"none", "ok", "error", "lost"}]
        /\ sessions' \subseteq Actors
        /\ worktree' \in [Actors -> Checkout \cup {None}]
        /\ UNCHANGED <<read, attempt, course, before>>
    BY <1>6, AnswerType DEF PushNewFails
  <2>2. remote' \in [Remotes -> (SUBSET Requests) \cup {Empty}]
    BY <1>6, PushType DEF PushNewFails, TypeOK
  <2> QED
    BY <1>6, <2>1, <2>2 DEF PushNewFails, Unname, TypeOK, initVars, bounds, AllStages
<1>7. CASE Switch(m)
  BY <1>7, SwitchType
<1>8. CASE Succeed(m)
  <2>1. /\ pc' \in [Actors \cup {Timer} -> AllStages]
        /\ outcome' \in [Actors -> {"none", "ok", "error", "lost"}]
        /\ sessions' \subseteq Actors
        /\ worktree' \in [Actors -> Checkout \cup {None}]
        /\ UNCHANGED <<read, attempt, course, before>>
    BY <1>8, AnswerType DEF Succeed
  <2> QED
    BY <1>8, <2>1 DEF Succeed, TypeOK, initVars, apiVars, bounds, AllStages
<1> QED
  BY <1>1, <1>2, <1>3, <1>4, <1>5, <1>6, <1>7, <1>8 DEF Migration

LEMMA PollType ==
    ASSUME Inductive, Poll
    PROVE  TypeOK'
<1> TypeOK
  BY DEF Inductive
<1> Timer \in Actors \cup {Timer} /\ Timer \in Movers
  BY DEF Movers
<1>1. CASE PollRead
  <2>1. pc' \in [Actors \cup {Timer} -> AllStages]
    BY <1>1, GoesType DEF PollRead, AllStages, Stages
  <2> QED
    BY <1>1, <2>1 DEF PollRead, TimerOnly, TypeOK, initVars, apiVars, bounds, AllStages
<1>2. CASE PollReadFails
  <2>1. pc' \in [Actors \cup {Timer} -> AllStages] /\ locked' \in BOOLEAN
    BY <1>2, RefreshType DEF PollReadFails
  <2>2. failures' \in 0..MaxFailures /\ restarts' \in 0..MaxRestarts
    BY <1>2, MigrationAssumption DEF PollReadFails, Failure, TypeOK
  <2> QED
    BY <1>2, <2>1, <2>2 DEF PollReadFails, TimerOnly, TypeOK, initVars, AllStages
<1>3. CASE PollAssign
  <2>1. pc' \in [Actors \cup {Timer} -> AllStages] /\ locked' \in BOOLEAN
    BY <1>3, RefreshType DEF PollAssign
  <2>2. config' \in Remotes /\ read' \in [Movers -> Remotes]
    BY <1>3, MigrationAssumption DEF PollAssign, TypeOK
  <2> QED
    BY <1>3, <2>1, <2>2 DEF PollAssign, TimerOnly, TypeOK, initVars, bounds, AllStages
<1>4. CASE RefreshStep(Timer)
  BY <1>4, RefreshStepType
<1>5. CASE PollCompare
  <2>1. pc' \in [Actors \cup {Timer} -> AllStages]
    BY <1>5, GoesType DEF PollCompare, AllStages, Stages
  <2> QED
    BY <1>5, <2>1 DEF PollCompare, TimerOnly, TypeOK, initVars, apiVars, bounds, AllStages
<1>6. CASE PollPull
  <2>1. pc' \in [Actors \cup {Timer} -> AllStages]
    BY <1>6, GoesType DEF PollPull, AllStages, Stages
  <2>2. clone' \in Checkout
    BY <1>6 DEF PollPull, Pulled, TypeOK, Checkout
  <2> QED
    BY <1>6, <2>1, <2>2 DEF PollPull, TimerOnly, TypeOK, initVars, bounds, AllStages
<1>7. CASE PollPullFails
  BY <1>7, RestartedType DEF PollPullFails, TypeOK, bounds
<1>8. CASE PollReload
  <2>1. pc' \in [Actors \cup {Timer} -> AllStages]
    BY <1>8, GoesType DEF PollReload, AllStages, Stages
  <2> QED
    BY <1>8, <2>1 DEF PollReload, TimerOnly, TypeOK, initVars, apiVars, bounds, AllStages
<1> QED
  BY <1>1, <1>2, <1>3, <1>4, <1>5, <1>6, <1>7, <1>8 DEF Poll

\* Every step keeps every variable of its kind.
LEMMA TypeStep ==
    ASSUME Inductive, [Next]_vars
    PROVE  TypeOK'
<1> TypeOK
  BY DEF Inductive
<1>1. ASSUME NEW a \in Actors, Admit(a) \/ Act(a)
      PROVE  TypeOK'
  BY <1>1, WriteRequestType, SwitchType, MigrationType DEF Act, Switchers
<1>2. CASE Poll
  BY <1>2, PollType
<1>3. CASE Restart
  <2>1. failures' \in 0..MaxFailures /\ restarts' \in 0..MaxRestarts
    BY <1>3, MigrationAssumption DEF Restart, TypeOK
  <2> QED
    BY <1>3, <2>1, RestartedType DEF Restart
<1>4. CASE UNCHANGED vars
  BY <1>4 DEF vars, apiVars, initVars, bounds, TypeOK
<1> QED
  BY <1>1, <1>2, <1>3, <1>4 DEF Next

-----------------------------------------------------------------------------
(* Nothing early is lost *)

\* What all steps but an admission and an acknowledgement have in common: no request
\* begins or is acknowledged, branches only grow, a branch that is created has what is
\* early, and so has every checkout that is made.
Quiet ==
    /\ before' = before
    /\ \A a \in Actors :
              /\ pc[a] = "idle" <=> pc'[a] = "idle"
              /\ pc[a] = "done" => pc'[a] = "done"
              /\ outcome'[a] # "none" => pc'[a] = "done"
    /\ \A s \in Requests : outcome'[s] = "ok" => outcome[s] = "ok"
    /\ \A s \in Requests : pc'[s] = "finish" => pc[s] = "finish" \/ \E r \in Remotes : s \in On(r)'
    /\ \A r \in Remotes :
         /\ remote[r] # Empty => remote'[r] # Empty /\ remote[r] \subseteq remote'[r]
         /\ remote[r] = Empty /\ remote'[r] # Empty => Moved /\ Early \subseteq remote'[r]
    /\ \A a \in Actors :
         worktree'[a] # None =>
             \/ worktree'[a] = worktree[a]
             \/ /\ pc[a] # "idle"
                /\ worktree'[a].head # Empty
                /\ remote[worktree'[a].of] # Empty
                /\ Early \subseteq worktree'[a].head
    /\ CheckedOut' => \/ clone' = clone
                      \/ remote[clone'.of] # Empty /\ Early \subseteq clone'.head

LEMMA QuietKeeps ==
    ASSUME Inductive, TypeOK', Quiet
    PROVE  Inductive'
<1> TypeOK
  BY DEF Inductive
<1> \A m \in Migrations : m \in Actors
  BY DEF Actors
<1> \A s \in Requests : s \in Actors
  BY DEF Actors
<1>1. Early' \subseteq Early
  BY DEF Quiet, Early
<1>2. Moved' <=> Moved
  BY DEF Quiet, Moved
<1>3. \A r \in Remotes : On(r) \subseteq On(r)'
  BY DEF Quiet, On
<1>4. AckedSomewhere'
  BY <1>3 DEF Quiet, Inductive, AckedSomewhere
<1>5. LossBounded'
  BY <1>1 DEF Quiet, Inductive, LossBounded
<1>6. \A r \in Remotes : ~Moved' /\ remote'[r] # Empty => r = Old
  BY <1>2 DEF Quiet, Inductive
<1>7. CheckedOut' => remote'[clone'.of] # Empty /\ Early' \subseteq clone'.head
  <2> SUFFICES ASSUME CheckedOut'
               PROVE  remote'[clone'.of] # Empty /\ Early' \subseteq clone'.head
    OBVIOUS
  <2>1. clone' \in Checkout /\ clone'.of \in Remotes
    BY DEF TypeOK, CheckedOut, Checkout
  <2>2. remote[clone'.of] # Empty /\ Early \subseteq clone'.head
    BY DEF Quiet, Inductive, CheckedOut
  <2> QED
    BY <1>1, <2>1, <2>2 DEF Quiet
<1>8. \A a \in Actors : worktree'[a] # None => /\ pc'[a] # "idle"
                                               /\ worktree'[a].head # Empty
                                               /\ remote'[worktree'[a].of] # Empty
  <2> TAKE a \in Actors
  <2> HAVE worktree'[a] # None
  <2>1. worktree'[a] \in Checkout /\ worktree'[a].of \in Remotes
    BY DEF TypeOK, Checkout
  <2>2. pc[a] # "idle" /\ worktree'[a].head # Empty /\ remote[worktree'[a].of] # Empty
    BY DEF Quiet, Inductive
  <2> QED
    BY <2>1, <2>2 DEF Quiet
<1>9. \A m \in Migrations : worktree'[m] # None => Early' \subseteq worktree'[m].head
  BY <1>1 DEF Quiet, Inductive
<1>10. \A s \in Requests : pc'[s] = "finish" => \E r \in Remotes : s \in On(r)'
  BY <1>3 DEF Quiet, Inductive
<1>11. \A a, b \in Actors : b \in before'[a] => pc'[b] = "done"
  BY DEF Quiet, Inductive
<1>12. \A a \in Actors : outcome'[a] # "none" => pc'[a] = "done"
  BY DEF Quiet
<1> QED
  BY <1>4, <1>5, <1>6, <1>7, <1>8, <1>9, <1>10, <1>11, <1>12 DEF Inductive

\* Steps that leave branches, checkouts and answers as they are, or take them away.
LEMMA StillQuiet ==
    ASSUME Inductive, before' = before, remote' = remote,
           \A a \in Actors :
                     /\ pc[a] = "idle" <=> pc'[a] = "idle"
                     /\ pc[a] = "done" => pc'[a] = "done"
                     /\ outcome'[a] # "none" => pc'[a] = "done"
                     /\ worktree'[a] = worktree[a] \/ worktree'[a] = None,
           \A s \in Requests : outcome'[s] = "ok" => outcome[s] = "ok",
           \A s \in Requests : pc'[s] = "finish" => pc[s] = "finish",
           CheckedOut' => \/ clone' = clone
                          \/ remote[clone'.of] # Empty /\ Early \subseteq clone'.head
    PROVE  Quiet
BY DEF Quiet

\* An actor goes from one stage in the middle to another.
LEMMA GoesQuiet ==
    ASSUME Inductive, NEW a \in Actors \cup {Timer}, NEW from, NEW to, Goes(a, from, to),
           a \in Actors => from \notin {"idle", "done"} /\ to \notin {"idle", "done"},
           UNCHANGED outcome
    PROVE  \A b \in Actors :
              /\ pc[b] = "idle" <=> pc'[b] = "idle"
              /\ pc[b] = "done" => pc'[b] = "done"
              /\ outcome'[b] # "none" => pc'[b] = "done"
              /\ pc'[b] = "finish" => pc[b] = "finish" \/ (b = a /\ to = "finish")
BY MigrationAssumption DEF Inductive, TypeOK, Goes

\* An actor is answered.
LEMMA AnswerQuiet ==
    ASSUME Inductive, NEW a \in Actors, NEW from, NEW result, Answer(a, from, result),
           from \notin {"idle", "done"}
    PROVE  /\ before' = before
           /\ \A b \in Actors :
                     /\ pc[b] = "idle" <=> pc'[b] = "idle"
                     /\ pc[b] = "done" => pc'[b] = "done"
                     /\ outcome'[b] # "none" => pc'[b] = "done"
                     /\ worktree'[b] = worktree[b] \/ worktree'[b] = None
                     /\ pc'[b] = "finish" => pc[b] = "finish"
                     /\ outcome'[b] = "ok" => outcome[b] = "ok" \/ (b = a /\ result = "ok")
BY MigrationAssumption DEF Inductive, TypeOK, Answer, Goes

LEMMA RestartedQuiet ==
    ASSUME Inductive, Restarted
    PROVE  Quiet
<1>1. \A a \in Actors :
          /\ pc[a] = "idle" <=> pc'[a] = "idle"
          /\ pc[a] = "done" => pc'[a] = "done"
          /\ outcome'[a] # "none" => pc'[a] = "done"
          /\ pc'[a] # "finish"
          /\ outcome'[a] = "ok" => outcome[a] = "ok"
          /\ worktree'[a] = None
  BY MigrationAssumption DEF Restarted, Inductive, TypeOK, Actors
<1>2. CheckedOut' => remote[clone'.of] # Empty /\ Early \subseteq clone'.head
  BY DEF Restarted, CheckedOut, Inductive, LossBounded, TypeOK
<1> QED
  BY <1>1, <1>2 DEF Quiet, Restarted, Actors

LEMMA ThrowsQuiet ==
    ASSUME Inductive, NEW p \in Movers, NEW from, from \notin {"idle", "done"}, Throws(p, from)
    PROVE  Quiet
<1>1. CASE p = Timer
  BY <1>1, RestartedQuiet DEF Throws
<1>2. CASE p # Timer
  <2>1. p \in Actors /\ Answer(p, from, "error") /\ remote' = remote /\ clone' = clone
    BY <1>2, MoverStages DEF Throws, apiVars
  <2>2. /\ before' = before
        /\ \A b \in Actors :
                  /\ pc[b] = "idle" <=> pc'[b] = "idle"
                  /\ pc[b] = "done" => pc'[b] = "done"
                  /\ outcome'[b] # "none" => pc'[b] = "done"
                  /\ worktree'[b] = worktree[b] \/ worktree'[b] = None
                  /\ pc'[b] = "finish" => pc[b] = "finish"
                  /\ outcome'[b] = "ok" => outcome[b] = "ok"
    BY <2>1, AnswerQuiet
  <2> QED
    BY <2>1, <2>2, StillQuiet DEF Actors
<1> QED
  BY <1>1, <1>2

\* A step of initGit: the mover goes on, and a branch that is checked out has what is early.
LEMMA AttemptingQuiet ==
    ASSUME Inductive, NEW p \in Movers, NEW from, NEW to, Goes(p, from, to),
           from \notin {"idle", "done"}, to \notin {"idle", "done", "finish"}, Attempting,
           CheckedOut' => \/ clone' = clone
                          \/ remote[clone'.of] # Empty /\ Early \subseteq clone'.head
    PROVE  Quiet
<1> p \in Actors \cup {Timer}
  BY MoverStages
<1>1. \A b \in Actors :
            /\ pc[b] = "idle" <=> pc'[b] = "idle"
            /\ pc[b] = "done" => pc'[b] = "done"
            /\ outcome'[b] # "none" => pc'[b] = "done"
            /\ pc'[b] = "finish" => pc[b] = "finish"
  BY GoesQuiet DEF Attempting
<1>2. before' = before /\ remote' = remote /\ worktree' = worktree
      /\ \A b \in Actors : outcome'[b] = "ok" => outcome[b] = "ok"
  BY DEF Attempting
<1> QED
  BY <1>1, <1>2, StillQuiet DEF Actors

LEMMA RefreshStepQuiet ==
    ASSUME Inductive, NEW p \in Movers, RefreshStep(p)
    PROVE  Quiet
<1> /\ p \in Actors \cup {Timer} /\ (p \in Actors => p # Timer)
    /\ Onward(p) \notin {"idle", "done", "finish"}
  BY MoverStages
<1> TypeOK
  BY DEF Inductive
<1>1. CASE LockFails(p)
  BY <1>1, ThrowsQuiet DEF LockFails
<1>2. CASE Clean(p)
  <2>1. \A b \in Actors :
              /\ pc[b] = "idle" <=> pc'[b] = "idle"
              /\ pc[b] = "done" => pc'[b] = "done"
              /\ outcome'[b] # "none" => pc'[b] = "done"
              /\ pc'[b] = "finish" => pc[b] = "finish"
    BY <1>2, GoesQuiet DEF Clean
  <2>2. /\ before' = before /\ remote' = remote /\ outcome' = outcome
        /\ ~CheckedOut'
        /\ \A b \in Actors : worktree'[b] = worktree[b] \/ worktree'[b] = None
        /\ \A b \in Actors : outcome'[b] = "ok" => outcome[b] = "ok"
    BY <1>2 DEF Clean, CheckedOut
  <2> QED
    BY <2>1, <2>2, StillQuiet DEF Actors
<1>3. CASE Clone(p)
  <2>1. remote[clone'.of] # Empty /\ Early \subseteq clone'.head
    BY <1>3 DEF Clone, Origin, Inductive, LossBounded, TypeOK, Checkout
  <2> QED
    BY <1>3, <2>1, AttemptingQuiet DEF Clone
<1>4. CASE Sync(p)
  <2>1. remote[clone'.of] # Empty /\ Early \subseteq clone'.head
    BY <1>4 DEF Sync, Pulled, Inductive, LossBounded, TypeOK, Checkout
  <2> QED
    BY <1>4, <2>1, AttemptingQuiet DEF Sync
<1>5. CASE AttemptFails(p)
  <2>1. CASE attempt[p] = MaxAttempts
    BY <1>5, <2>1, RestartedQuiet DEF AttemptFails
  <2>2. CASE attempt[p] # MaxAttempts
    <3>1. Goes(p, pc[p], "retry") /\ Attempting /\ pc[p] \notin {"idle", "done"}
      BY <1>5, <2>2 DEF AttemptFails
    <3>2. ASSUME NEW head \in {remote[read[p]], Empty}, clone' = [of |-> read[p], head |-> head],
                 CheckedOut'
          PROVE  remote[clone'.of] # Empty /\ Early \subseteq clone'.head
      BY <3>2 DEF CheckedOut, Inductive, LossBounded, TypeOK
    <3>3. CheckedOut' => \/ clone' = clone
                         \/ remote[clone'.of] # Empty /\ Early \subseteq clone'.head
      BY <1>5, <2>2, <3>2 DEF AttemptFails
    <3> QED
      BY <3>1, <3>3, AttemptingQuiet
  <2> QED
    BY <2>1, <2>2
<1>6. CASE Reread(p)
  BY <1>6, AttemptingQuiet DEF Reread
<1>7. CASE TakeOver(p)
  BY <1>7, AttemptingQuiet DEF TakeOver
<1>8. CASE Load(p)
  <2>1. \A b \in Actors :
              /\ pc[b] = "idle" <=> pc'[b] = "idle"
              /\ pc[b] = "done" => pc'[b] = "done"
              /\ outcome'[b] # "none" => pc'[b] = "done"
              /\ pc'[b] = "finish" => pc[b] = "finish"
    BY <1>8, GoesQuiet DEF Load
  <2>2. /\ before' = before /\ remote' = remote /\ outcome' = outcome
        /\ clone' = clone /\ worktree' = worktree
        /\ \A b \in Actors : outcome'[b] = "ok" => outcome[b] = "ok"
    BY <1>8 DEF Load
  <2> QED
    BY <2>1, <2>2, StillQuiet DEF Actors
<1>9. CASE UnlockFails(p)
  BY <1>9, ThrowsQuiet DEF UnlockFails
<1> QED
  BY <1>1, <1>2, <1>3, <1>4, <1>5, <1>6, <1>7, <1>8, <1>9 DEF RefreshStep

LEMMA RefreshQuiet ==
    ASSUME Inductive, NEW p \in Movers, NEW from, Refresh(p, from),
           p \in Switchers => from \notin {"idle", "done"},
           UNCHANGED outcome
    PROVE  \A b \in Actors :
              /\ pc[b] = "idle" <=> pc'[b] = "idle"
              /\ pc[b] = "done" => pc'[b] = "done"
              /\ outcome'[b] # "none" => pc'[b] = "done"
              /\ pc'[b] = "finish" => pc[b] = "finish"
<1> /\ p \in Actors \cup {Timer} /\ (p \in Actors => p \in Switchers)
    /\ Onward(p) \notin {"idle", "done", "finish"}
  BY MoverStages
<1>1. CASE Goes(p, from, Onward(p))
  BY <1>1, GoesQuiet
<1>2. CASE Goes(p, from, "lock")
  BY <1>2, GoesQuiet
<1> QED
  BY <1>1, <1>2 DEF Refresh

\* A push of deployments adds to a branch that is there.
LEMMA DeploymentQuiet ==
    ASSUME Inductive, TypeOK', NEW s \in Requests, Save(s) \/ SaveFails(s) \/ FinishFails(s)
    PROVE  Quiet
<1> TypeOK /\ s \in Actors
  BY DEF Inductive, Actors
<1>1. ASSUME worktree[s] # None, remote' = Pushed(s)
      PROVE  /\ \A r \in Remotes :
                  /\ remote[r] # Empty => remote'[r] # Empty /\ remote[r] \subseteq remote'[r]
                  /\ remote[r] = Empty => remote'[r] = Empty
             /\ \E r \in Remotes : s \in On(r)'
  <2>1. worktree[s].of \in Remotes /\ remote[worktree[s].of] \in SUBSET Requests
    BY <1>1 DEF Inductive, TypeOK, Checkout
  <2>2. remote'[worktree[s].of] = remote[worktree[s].of] \cup {s}
    BY <1>1, <2>1 DEF Pushed, TypeOK
  <2>3. \A r \in Remotes : r # worktree[s].of => remote'[r] = remote[r]
    BY <1>1 DEF Pushed, TypeOK
  <2>4. remote'[worktree[s].of] # Empty
    BY <2>1, <2>2, MigrationAssumption
  <2> QED
    BY <2>1, <2>2, <2>3, <2>4, MigrationAssumption DEF On
<1>2. CASE Save(s)
  <2>1. \A b \in Actors :
            /\ pc[b] = "idle" <=> pc'[b] = "idle"
            /\ pc[b] = "done" => pc'[b] = "done"
            /\ outcome'[b] # "none" => pc'[b] = "done"
            /\ pc'[b] = "finish" => pc[b] = "finish" \/ b = s
    BY <1>2, GoesQuiet DEF Save
  <2>2. before' = before /\ outcome' = outcome /\ worktree' = worktree /\ clone' = clone
    BY <1>2 DEF Save
  <2>3. worktree[s] # None /\ remote' = Pushed(s)
    BY <1>2 DEF Save
  <2> QED
    BY <1>1, <2>1, <2>2, <2>3 DEF Quiet, Actors
<1>3. CASE SaveFails(s)
  <2>1. /\ before' = before
        /\ \A b \in Actors :
                  /\ pc[b] = "idle" <=> pc'[b] = "idle"
                  /\ pc[b] = "done" => pc'[b] = "done"
                  /\ outcome'[b] # "none" => pc'[b] = "done"
                  /\ worktree'[b] = worktree[b] \/ worktree'[b] = None
                  /\ pc'[b] = "finish" => pc[b] = "finish"
                  /\ outcome'[b] = "ok" => outcome[b] = "ok"
    BY <1>3, AnswerQuiet DEF SaveFails
  <2>2. CASE remote' = remote
    BY <1>3, <2>1, <2>2, StillQuiet DEF SaveFails, Actors, apiVars
  <2>3. CASE worktree[s] # None /\ remote' = Pushed(s)
    BY <1>1, <1>3, <2>1, <2>3 DEF Quiet, SaveFails, Actors, apiVars
  <2> QED
    BY <1>3, <2>2, <2>3 DEF SaveFails
<1>4. CASE FinishFails(s)
  <2>1. /\ before' = before
        /\ \A b \in Actors :
                  /\ pc[b] = "idle" <=> pc'[b] = "idle"
                  /\ pc[b] = "done" => pc'[b] = "done"
                  /\ outcome'[b] # "none" => pc'[b] = "done"
                  /\ worktree'[b] = worktree[b] \/ worktree'[b] = None
                  /\ pc'[b] = "finish" => pc[b] = "finish"
                  /\ outcome'[b] = "ok" => outcome[b] = "ok"
    BY <1>4, AnswerQuiet DEF FinishFails
  <2> QED
    BY <1>4, <2>1, StillQuiet DEF FinishFails, Actors, apiVars
<1> QED
  BY <1>2, <1>3, <1>4

LEMMA SetupQuiet ==
    ASSUME Inductive, NEW a \in Actors, Setup(a) \/ SetupFails(a)
    PROVE  Quiet
<1> TypeOK
  BY DEF Inductive
<1>1. CASE Setup(a)
  <2>1. \A b \in Actors :
              /\ pc[b] = "idle" <=> pc'[b] = "idle"
              /\ pc[b] = "done" => pc'[b] = "done"
              /\ outcome'[b] # "none" => pc'[b] = "done"
              /\ pc'[b] = "finish" => pc[b] = "finish"
    BY <1>1, GoesQuiet DEF Setup
  <2>2. PICK c \in {clone, Pulled} : clone' = c /\ worktree' = [worktree EXCEPT ![a] = c]
    BY <1>1 DEF Setup
  <2>3. clone \in Checkout /\ remote[clone.of] # Empty /\ clone.head # Empty
    BY <1>1 DEF Setup, CheckedOut, Inductive, TypeOK
  <2>4. c.head # Empty /\ remote[c.of] # Empty /\ Early \subseteq c.head
    BY <1>1, <2>2, <2>3 DEF Setup, Pulled, Inductive, LossBounded, TypeOK, Checkout
  <2>5. pc[a] # "idle"
    BY <1>1 DEF Setup, Goes
  <2>6. \A b \in Actors : worktree'[b] = IF b = a THEN c ELSE worktree[b]
    BY <2>2 DEF TypeOK
  <2>7. \A b \in Actors :
          worktree'[b] # None =>
              \/ worktree'[b] = worktree[b]
              \/ /\ pc[b] # "idle"
                 /\ worktree'[b].head # Empty
                 /\ remote[worktree'[b].of] # Empty
                 /\ Early \subseteq worktree'[b].head
    BY <2>4, <2>5, <2>6
  <2>8. before' = before /\ remote' = remote /\ outcome' = outcome
    BY <1>1 DEF Setup
  <2> QED
    BY <2>1, <2>2, <2>4, <2>7, <2>8 DEF Quiet, Actors
<1>2. CASE SetupFails(a)
  <2>1. /\ before' = before
        /\ \A b \in Actors :
                  /\ pc[b] = "idle" <=> pc'[b] = "idle"
                  /\ pc[b] = "done" => pc'[b] = "done"
                  /\ outcome'[b] # "none" => pc'[b] = "done"
                  /\ worktree'[b] = worktree[b] \/ worktree'[b] = None
                  /\ pc'[b] = "finish" => pc[b] = "finish"
                  /\ outcome'[b] = "ok" => outcome[b] = "ok"
    BY <1>2, AnswerQuiet DEF SetupFails
  <2> QED
    BY <1>2, <2>1, StillQuiet DEF SetupFails, Actors, apiVars
<1> QED
  BY <1>1, <1>2

\* What storeGitConfig does touches no branch.
LEMMA SwitchQuiet ==
    ASSUME Inductive, NEW p \in Switchers, Switch(p)
    PROVE  Quiet
<1> p \in Actors /\ p \in Movers
  BY MigrationAssumption DEF Actors, Movers, Switchers
<1>1. CASE StoreSecret(p)
  <2>1. \A b \in Actors :
              /\ pc[b] = "idle" <=> pc'[b] = "idle"
              /\ pc[b] = "done" => pc'[b] = "done"
              /\ outcome'[b] # "none" => pc'[b] = "done"
              /\ pc'[b] = "finish" => pc[b] = "finish"
    BY <1>1, GoesQuiet DEF StoreSecret
  <2>2. /\ before' = before /\ remote' = remote /\ outcome' = outcome
        /\ clone' = clone /\ worktree' = worktree
    BY <1>1 DEF StoreSecret, apiVars
  <2> QED
    BY <2>1, <2>2, StillQuiet DEF Actors
<1>2. CASE StoreFails(p)
  <2>1. /\ before' = before
        /\ \A b \in Actors :
                  /\ pc[b] = "idle" <=> pc'[b] = "idle"
                  /\ pc[b] = "done" => pc'[b] = "done"
                  /\ outcome'[b] # "none" => pc'[b] = "done"
                  /\ worktree'[b] = worktree[b] \/ worktree'[b] = None
                  /\ pc'[b] = "finish" => pc[b] = "finish"
                  /\ outcome'[b] = "ok" => outcome[b] = "ok"
    BY <1>2, AnswerQuiet DEF StoreFails
  <2> QED
    BY <1>2, <2>1, StillQuiet DEF StoreFails, Actors, apiVars
<1>3. CASE SetConfig(p)
  <2>1. \A b \in Actors :
              /\ pc[b] = "idle" <=> pc'[b] = "idle"
              /\ pc[b] = "done" => pc'[b] = "done"
              /\ outcome'[b] # "none" => pc'[b] = "done"
              /\ pc'[b] = "finish" => pc[b] = "finish"
    BY <1>3, RefreshQuiet DEF SetConfig
  <2>2. /\ before' = before /\ remote' = remote /\ outcome' = outcome
        /\ clone' = clone /\ worktree' = worktree
    BY <1>3 DEF SetConfig
  <2> QED
    BY <2>1, <2>2, StillQuiet DEF Actors
<1>4. CASE RefreshStep(p)
  BY <1>4, RefreshStepQuiet
<1> QED
  BY <1>1, <1>2, <1>3, <1>4 DEF Switch

\* A push to a new remote brings everything early with it.
LEMMA MigrationQuiet ==
    ASSUME Inductive, TypeOK', NEW m \in Migrations, Migration(m)
    PROVE  Quiet
<1> /\ m \in Actors /\ m \in Switchers /\ m # Timer
    /\ \A s \in Requests : s \in Actors /\ s # m
  BY MigrationAssumption DEF Actors, Switchers
<1> TypeOK
  BY DEF Inductive
<1>1. ASSUME MayPush(m), remote' = PushedNew(m), pc[m] # "idle"
      PROVE  \A r \in Remotes :
               /\ remote[r] # Empty => remote'[r] # Empty /\ remote[r] \subseteq remote'[r]
               /\ remote[r] = Empty /\ remote'[r] # Empty => Moved /\ Early \subseteq remote'[r]
  <2>1. worktree[m].head \in SUBSET Requests /\ Early \subseteq worktree[m].head
    BY <1>1 DEF MayPush, Inductive, TypeOK, Checkout
  <2>2. remote'[named] = worktree[m].head /\ On(named) \subseteq worktree[m].head
    BY <1>1 DEF MayPush, PushedNew, TypeOK
  <2>3. \A r \in Remotes : r # named => remote'[r] = remote[r]
    BY <1>1 DEF PushedNew, TypeOK
  <2>4. Moved
    BY <1>1 DEF Moved
  <2> QED
    BY <2>1, <2>2, <2>3, <2>4, MigrationAssumption DEF On
<1>2. CASE Test(m)
  <2>1. \A b \in Actors :
              /\ pc[b] = "idle" <=> pc'[b] = "idle"
              /\ pc[b] = "done" => pc'[b] = "done"
              /\ outcome'[b] # "none" => pc'[b] = "done"
              /\ pc'[b] = "finish" => pc[b] = "finish"
    BY <1>2, GoesQuiet DEF Test
  <2>2. /\ before' = before /\ remote' = remote /\ outcome' = outcome
        /\ clone' = clone /\ worktree' = worktree
        /\ \A b \in Actors : outcome'[b] = "ok" => outcome[b] = "ok"
    BY <1>2 DEF Test, apiVars, Session
  <2> QED
    BY <2>1, <2>2, StillQuiet DEF Actors
<1>3. CASE TestFails(m)
  <2>1. /\ before' = before
        /\ \A b \in Actors :
                  /\ pc[b] = "idle" <=> pc'[b] = "idle"
                  /\ pc[b] = "done" => pc'[b] = "done"
                  /\ outcome'[b] # "none" => pc'[b] = "done"
                  /\ worktree'[b] = worktree[b] \/ worktree'[b] = None
                  /\ pc'[b] = "finish" => pc[b] = "finish"
                  /\ outcome'[b] = "ok" => outcome[b] = "ok"
    BY <1>3, AnswerQuiet DEF TestFails
  <2> QED
    BY <1>3, <2>1, StillQuiet DEF TestFails, Actors, apiVars
<1>4. CASE Name(m)
  <2>1. \A b \in Actors :
              /\ pc[b] = "idle" <=> pc'[b] = "idle"
              /\ pc[b] = "done" => pc'[b] = "done"
              /\ outcome'[b] # "none" => pc'[b] = "done"
              /\ pc'[b] = "finish" => pc[b] = "finish"
    BY <1>4, GoesQuiet DEF Name
  <2>2. /\ before' = before /\ remote' = remote /\ outcome' = outcome
        /\ clone' = clone /\ worktree' = worktree
        /\ \A b \in Actors : outcome'[b] = "ok" => outcome[b] = "ok"
    BY <1>4 DEF Name, apiVars, Session
  <2> QED
    BY <2>1, <2>2, StillQuiet DEF Actors
<1>5. CASE NameFails(m)
  <2>1. /\ before' = before
        /\ \A b \in Actors :
                  /\ pc[b] = "idle" <=> pc'[b] = "idle"
                  /\ pc[b] = "done" => pc'[b] = "done"
                  /\ outcome'[b] # "none" => pc'[b] = "done"
                  /\ worktree'[b] = worktree[b] \/ worktree'[b] = None
                  /\ pc'[b] = "finish" => pc[b] = "finish"
                  /\ outcome'[b] = "ok" => outcome[b] = "ok"
    BY <1>5, AnswerQuiet DEF NameFails
  <2> QED
    BY <1>5, <2>1, StillQuiet DEF NameFails, Actors, apiVars
<1>6. CASE PushNew(m)
  <2>1. \A b \in Actors :
              /\ pc[b] = "idle" <=> pc'[b] = "idle"
              /\ pc[b] = "done" => pc'[b] = "done"
              /\ outcome'[b] # "none" => pc'[b] = "done"
              /\ pc'[b] = "finish" => pc[b] = "finish"
    BY <1>6, GoesQuiet DEF PushNew
  <2>2. /\ before' = before /\ outcome' = outcome /\ clone' = clone
        /\ \A b \in Actors : worktree'[b] = worktree[b] \/ worktree'[b] = None
    BY <1>6 DEF PushNew, Session, initVars, TypeOK
  <2>3. MayPush(m) /\ remote' = PushedNew(m) /\ pc[m] # "idle"
    BY <1>6 DEF PushNew, Goes
  <2> QED
    BY <1>1, <2>1, <2>2, <2>3 DEF Quiet, Actors
<1>7. CASE PushNewFails(m)
  <2>1. /\ before' = before
        /\ \A b \in Actors :
                  /\ pc[b] = "idle" <=> pc'[b] = "idle"
                  /\ pc[b] = "done" => pc'[b] = "done"
                  /\ outcome'[b] # "none" => pc'[b] = "done"
                  /\ worktree'[b] = worktree[b] \/ worktree'[b] = None
                  /\ pc'[b] = "finish" => pc[b] = "finish"
                  /\ outcome'[b] = "ok" => outcome[b] = "ok"
    BY <1>7, AnswerQuiet DEF PushNewFails
  <2>2. clone' = clone
    BY <1>7 DEF PushNewFails
  <2>3. CASE remote' = remote
    BY <2>1, <2>2, <2>3, StillQuiet DEF Actors
  <2>4. CASE MayPush(m) /\ remote' = PushedNew(m)
    <3>1. pc[m] # "idle"
      BY <1>7 DEF PushNewFails, Answer, Goes
    <3> QED
      BY <1>1, <2>1, <2>2, <2>4, <3>1 DEF Quiet, Actors
  <2> QED
    BY <1>7, <2>3, <2>4 DEF PushNewFails
<1>8. CASE Switch(m)
  BY <1>8, SwitchQuiet
<1>9. CASE Succeed(m)
  <2>1. /\ before' = before
        /\ \A b \in Actors :
                  /\ pc[b] = "idle" <=> pc'[b] = "idle"
                  /\ pc[b] = "done" => pc'[b] = "done"
                  /\ outcome'[b] # "none" => pc'[b] = "done"
                  /\ worktree'[b] = worktree[b] \/ worktree'[b] = None
                  /\ pc'[b] = "finish" => pc[b] = "finish"
                  /\ outcome'[b] = "ok" => outcome[b] = "ok" \/ b = m
    BY <1>9, AnswerQuiet DEF Succeed
  <2> QED
    BY <1>9, <2>1, StillQuiet DEF Succeed, Actors, apiVars
<1> QED
  BY <1>2, <1>3, <1>4, <1>5, <1>6, <1>7, <1>8, <1>9 DEF Migration

LEMMA PollQuiet ==
    ASSUME Inductive, Poll
    PROVE  Quiet
<1> Timer \in Movers /\ Timer \notin Actors
  BY MigrationAssumption DEF Movers
<1> TypeOK
  BY DEF Inductive
<1>1. CASE PollRead
  <2>1. \A b \in Actors :
              /\ pc[b] = "idle" <=> pc'[b] = "idle"
              /\ pc[b] = "done" => pc'[b] = "done"
              /\ outcome'[b] # "none" => pc'[b] = "done"
              /\ pc'[b] = "finish" => pc[b] = "finish"
    BY <1>1, GoesQuiet DEF PollRead, TimerOnly
  <2>2. /\ before' = before /\ remote' = remote /\ outcome' = outcome
        /\ clone' = clone /\ worktree' = worktree
    BY <1>1 DEF PollRead, TimerOnly, apiVars
  <2> QED
    BY <2>1, <2>2, StillQuiet DEF Actors
<1>2. CASE PollReadFails
  <2>1. \A b \in Actors :
              /\ pc[b] = "idle" <=> pc'[b] = "idle"
              /\ pc[b] = "done" => pc'[b] = "done"
              /\ outcome'[b] # "none" => pc'[b] = "done"
              /\ pc'[b] = "finish" => pc[b] = "finish"
    BY <1>2, RefreshQuiet, MigrationAssumption DEF PollReadFails, TimerOnly, Switchers, Actors
  <2>2. /\ before' = before /\ remote' = remote /\ outcome' = outcome
        /\ clone' = clone /\ worktree' = worktree
    BY <1>2 DEF PollReadFails, TimerOnly, apiVars
  <2> QED
    BY <2>1, <2>2, StillQuiet DEF Actors
<1>3. CASE PollAssign
  <2>1. \A b \in Actors :
              /\ pc[b] = "idle" <=> pc'[b] = "idle"
              /\ pc[b] = "done" => pc'[b] = "done"
              /\ outcome'[b] # "none" => pc'[b] = "done"
              /\ pc'[b] = "finish" => pc[b] = "finish"
    BY <1>3, RefreshQuiet, MigrationAssumption DEF PollAssign, TimerOnly, Switchers, Actors
  <2>2. /\ before' = before /\ remote' = remote /\ outcome' = outcome
        /\ clone' = clone /\ worktree' = worktree
    BY <1>3 DEF PollAssign, TimerOnly, apiVars
  <2> QED
    BY <2>1, <2>2, StillQuiet DEF Actors
<1>4. CASE RefreshStep(Timer)
  BY <1>4, RefreshStepQuiet
<1>5. CASE PollCompare
  <2>1. \A b \in Actors :
              /\ pc[b] = "idle" <=> pc'[b] = "idle"
              /\ pc[b] = "done" => pc'[b] = "done"
              /\ outcome'[b] # "none" => pc'[b] = "done"
              /\ pc'[b] = "finish" => pc[b] = "finish"
    BY <1>5, GoesQuiet DEF PollCompare, TimerOnly
  <2>2. /\ before' = before /\ remote' = remote /\ outcome' = outcome
        /\ clone' = clone /\ worktree' = worktree
    BY <1>5 DEF PollCompare, TimerOnly, apiVars
  <2> QED
    BY <2>1, <2>2, StillQuiet DEF Actors
<1>6. CASE PollPull
  <2>1. \A b \in Actors :
              /\ pc[b] = "idle" <=> pc'[b] = "idle"
              /\ pc[b] = "done" => pc'[b] = "done"
              /\ outcome'[b] # "none" => pc'[b] = "done"
              /\ pc'[b] = "finish" => pc[b] = "finish"
    BY <1>6, GoesQuiet DEF PollPull, TimerOnly
  <2>2. before' = before /\ remote' = remote /\ outcome' = outcome /\ worktree' = worktree
    BY <1>6 DEF PollPull, TimerOnly
  <2>3. remote[clone'.of] # Empty /\ Early \subseteq clone'.head
    BY <1>6 DEF PollPull, Pulled, Inductive, LossBounded, TypeOK, Checkout
  <2> QED
    BY <2>1, <2>2, <2>3, StillQuiet DEF Actors
<1>7. CASE PollPullFails
  BY <1>7, RestartedQuiet DEF PollPullFails
<1>8. CASE PollReload
  <2>1. \A b \in Actors :
              /\ pc[b] = "idle" <=> pc'[b] = "idle"
              /\ pc[b] = "done" => pc'[b] = "done"
              /\ outcome'[b] # "none" => pc'[b] = "done"
              /\ pc'[b] = "finish" => pc[b] = "finish"
    BY <1>8, GoesQuiet DEF PollReload, TimerOnly
  <2>2. /\ before' = before /\ remote' = remote /\ outcome' = outcome
        /\ clone' = clone /\ worktree' = worktree
    BY <1>8 DEF PollReload, TimerOnly, apiVars
  <2> QED
    BY <2>1, <2>2, StillQuiet DEF Actors
<1> QED
  BY <1>1, <1>2, <1>3, <1>4, <1>5, <1>6, <1>7, <1>8 DEF Poll

\* The admission of a migration ends what counts as early; that of a request does not
\* add to it.
LEMMA AdmitKeeps ==
    ASSUME Inductive, TypeOK', NEW a \in Actors, Admit(a)
    PROVE  Inductive'
<1> TypeOK
  BY DEF Inductive
<1> /\ \A m \in Migrations : m \in Actors /\ m # Timer
    /\ \A s \in Requests : s \in Actors
  BY MigrationAssumption DEF Actors
<1>1. /\ remote' = remote /\ clone' = clone /\ worktree' = worktree /\ outcome' = outcome
      /\ pc[a] = "idle" /\ pc'[a] = "setup" /\ before'[a] = {b \in Actors : pc[b] = "done"}
      /\ \A b \in Actors : b # a => pc'[b] = pc[b] /\ before'[b] = before[b]
  BY DEF Admit, Goes, TypeOK
<1>2. Early' \subseteq Early
  BY <1>1 DEF Early
<1>3. Moved => Moved'
  BY <1>1 DEF Moved
<1>4. AckedSomewhere'
  BY <1>1 DEF Inductive, AckedSomewhere, On
<1>5. LossBounded'
  BY <1>1, <1>2 DEF Inductive, LossBounded
<1>6. \A r \in Remotes : ~Moved' /\ remote'[r] # Empty => r = Old
  BY <1>1, <1>3 DEF Inductive
<1>7. CheckedOut' => remote'[clone'.of] # Empty /\ Early' \subseteq clone'.head
  BY <1>1, <1>2 DEF Inductive, CheckedOut
<1>8. \A b \in Actors : worktree'[b] # None => /\ pc'[b] # "idle"
                                               /\ worktree'[b].head # Empty
                                               /\ remote'[worktree'[b].of] # Empty
  BY <1>1 DEF Inductive
<1>9. \A m \in Migrations : worktree'[m] # None => Early' \subseteq worktree'[m].head
  BY <1>1, <1>2 DEF Inductive
<1>10. \A s \in Requests : pc'[s] = "finish" => \E r \in Remotes : s \in On(r)'
  BY <1>1 DEF Inductive, On
<1>11. \A b, c \in Actors : c \in before'[b] => pc'[c] = "done"
  BY <1>1 DEF Inductive
<1>12. \A b \in Actors : outcome'[b] # "none" => pc'[b] = "done"
  BY <1>1 DEF Inductive
<1> QED
  BY <1>4, <1>5, <1>6, <1>7, <1>8, <1>9, <1>10, <1>11, <1>12 DEF Inductive

\* What is acknowledged after a migration has been admitted is not early; before that
\* there is one remote, and it has what is acknowledged.
LEMMA FinishKeeps ==
    ASSUME Inductive, TypeOK', NEW s \in Requests, Finish(s)
    PROVE  Inductive'
<1> TypeOK
  BY DEF Inductive
<1> /\ \A m \in Migrations : m \in Actors /\ m # s
    /\ \A q \in Requests : q \in Actors /\ q # Timer
  BY MigrationAssumption DEF Actors
<1>1. /\ remote' = remote /\ before' = before
      /\ pc[s] = "finish" /\ pc'[s] = "done" /\ outcome'[s] = "ok" /\ worktree'[s] = None
      /\ \A b \in Actors : b # s => /\ pc'[b] = pc[b] /\ outcome'[b] = outcome[b]
                                   /\ worktree'[b] = worktree[b]
  BY DEF Finish, Answer, Goes, TypeOK
<1>2. CheckedOut' => /\ clone'.of \in Remotes
                     /\ clone'.head = remote[clone'.of]
                     /\ remote[clone'.of] # Empty
  BY DEF Finish, CheckedOut, Pulled, Inductive, TypeOK, Checkout
<1>3. Moved' <=> Moved
  BY <1>1 DEF Moved
<1>5. PICK r \in Remotes : s \in On(r)
  BY <1>1 DEF Inductive
<1>6. AckedSomewhere'
  BY <1>1, <1>5 DEF Inductive, AckedSomewhere, On
<1>7. LossBounded'
  <2>1. CASE Moved
    <3>1. Early' \subseteq Early
      BY <1>1, <2>1 DEF Early, Moved, Inductive
    <3> QED
      BY <1>1, <3>1 DEF Inductive, LossBounded
  <2>2. CASE ~Moved
    <3>1. r = Old /\ s \in remote[Old]
      BY <1>5, <2>2 DEF Inductive, On
    <3>2. Early' \subseteq Early \cup {s}
      BY <1>1 DEF Early
    <3> QED
      BY <1>1, <2>2, <3>1, <3>2 DEF Inductive, LossBounded
  <2> QED
    BY <2>1, <2>2
<1>8. \A q \in Remotes : ~Moved' /\ remote'[q] # Empty => q = Old
  BY <1>1, <1>3 DEF Inductive
<1>9. CheckedOut' => remote'[clone'.of] # Empty /\ Early' \subseteq clone'.head
  BY <1>1, <1>2, <1>7 DEF LossBounded
<1>10. \A a \in Actors : worktree'[a] # None => /\ pc'[a] # "idle"
                                                /\ worktree'[a].head # Empty
                                                /\ remote'[worktree'[a].of] # Empty
  BY <1>1 DEF Inductive
<1>11. \A m \in Migrations : worktree'[m] # None => Early' \subseteq worktree'[m].head
  <2> SUFFICES ASSUME NEW m \in Migrations, worktree'[m] # None
               PROVE  Early' \subseteq worktree'[m].head
    OBVIOUS
  <2>1. worktree'[m] = worktree[m] /\ pc[m] # "idle"
    BY <1>1 DEF Inductive
  <2>2. Early' \subseteq Early
    BY <1>1, <2>1 DEF Early, Inductive
  <2> QED
    BY <2>1, <2>2 DEF Inductive
<1>12. \A q \in Requests : pc'[q] = "finish" => \E p \in Remotes : q \in On(p)'
  BY <1>1 DEF Inductive, On
<1>13. \A a, b \in Actors : b \in before'[a] => pc'[b] = "done"
  BY <1>1 DEF Inductive
<1>14. \A a \in Actors : outcome'[a] # "none" => pc'[a] = "done"
  BY <1>1 DEF Inductive
<1> QED
  BY <1>6, <1>7, <1>8, <1>9, <1>10, <1>11, <1>12, <1>13, <1>14 DEF Inductive

LEMMA InductiveInit == Init => Inductive
<1> SUFFICES ASSUME Init PROVE Inductive
  OBVIOUS
<1>1. TypeOK
  <2>1. remote \in [Remotes -> (SUBSET Requests) \cup {Empty}]
    BY DEF Init
  <2>2. clone \in Checkout
    BY MigrationAssumption DEF Init, Checkout
  <2>3. /\ pc \in [Actors \cup {Timer} -> Stages \cup {"assign", "compare", "pull", "reload"}]
        /\ attempt \in [Movers -> 1..MaxAttempts]
    BY MigrationAssumption DEF Init, Stages
  <2>4. failures \in 0..MaxFailures /\ restarts \in 0..MaxRestarts
    BY MigrationAssumption DEF Init
  <2> QED
    BY <2>1, <2>2, <2>3, <2>4, MigrationAssumption DEF Init, TypeOK
<1>2. Early = {}
  BY DEF Init, Early, Actors
<1>3. \A a \in Actors : pc[a] = "idle" /\ worktree[a] = None /\ outcome[a] = "none"
                       /\ before[a] = {}
  BY DEF Init
<1> QED
  BY <1>1, <1>2, <1>3, MigrationAssumption
     DEF Init, Inductive, AckedSomewhere, LossBounded, Actors, CheckedOut

LEMMA InductiveStep == Inductive /\ [Next]_vars => Inductive'
<1> SUFFICES ASSUME Inductive, [Next]_vars PROVE Inductive'
  OBVIOUS
<1>1. TypeOK'
  BY TypeStep
<1>2. ASSUME NEW a \in Actors, Admit(a) \/ Act(a)
      PROVE  Inductive'
  <2>1. CASE Admit(a)
    BY <1>1, <2>1, AdmitKeeps
  <2>2. CASE Setup(a) \/ SetupFails(a)
    BY <1>1, <2>2, SetupQuiet, QuietKeeps
  <2>3. CASE a \in Requests /\ Deployment(a)
    BY <1>1, <2>3, DeploymentQuiet, QuietKeeps, FinishKeeps DEF Deployment
  <2>4. CASE a \in Editors /\ Switch(a)
    BY <1>1, <2>4, SwitchQuiet, QuietKeeps DEF Switchers
  <2>5. CASE a \in Migrations /\ Migration(a)
    BY <1>1, <2>5, MigrationQuiet, QuietKeeps
  <2> QED
    BY <1>2, <2>1, <2>2, <2>3, <2>4, <2>5 DEF Act
<1>3. CASE Poll
  BY <1>1, <1>3, PollQuiet, QuietKeeps
<1>4. CASE Restart
  BY <1>1, <1>4, RestartedQuiet, QuietKeeps DEF Restart
<1>5. CASE UNCHANGED vars
  BY <1>5 DEF vars, apiVars, initVars, bounds, Inductive, TypeOK, AckedSomewhere,
              LossBounded, Early, Moved, On, CheckedOut
<1> QED
  BY <1>2, <1>3, <1>4, <1>5 DEF Next

\* Every variable of the migration holds a value of its kind, and early deployments are
\* in every checkout a migration or a restart may start from.
THEOREM InductiveCorrect == Spec => []Inductive
<1>1. Inductive /\ [Next]_vars => Inductive'
  BY InductiveStep
<1> QED
  BY <1>1, InductiveInit, PTL DEF Spec

\* Whatever refreshes, migrations and restarts interleave, client, clone and worktrees
\* are of remotes there are, and every request is at a stage of its handler.
THEOREM TypeCorrect == Spec => []TypeOK
<1>1. Inductive => TypeOK
  BY DEF Inductive
<1> QED
  BY <1>1, InductiveCorrect, PTL

\* refreshGitClient, cleanAllSessions, failures and restarts, in any order and for any
\* number of requests and migrations: what had been acknowledged before the first
\* migration was admitted is on every remote anything was moved to.
THEOREM NothingEarlyIsLost == Spec => []LossBounded
<1>1. Inductive => LossBounded
  BY DEF Inductive
<1> QED
  BY <1>1, InductiveCorrect, PTL

\* A request whose worktree cleanAllSessions removed does not answer success unless it
\* had pushed.
THEOREM AckedIsSomewhere == Spec => []AckedSomewhere
<1>1. Inductive => AckedSomewhere
  BY DEF Inductive
<1> QED
  BY <1>1, InductiveCorrect, PTL

=============================================================================
