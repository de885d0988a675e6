-------------------------------- MODULE CloudTty --------------------------------
(***************************************************************************)
(* The cloud shell: a pod with the Kubernetes objects around it, created   *)
(* one after the other when its user connects, deleted one after the other *)
(* on request.                                                             *)
(*                                                                         *)
(*   src/src/tty.ts             createTty, deleteTty                       *)
(*   src/src/otomi-stack.ts     connectCloudtty, deleteCloudtty            *)
(*   src/src/k8s-operations.ts  checkPodExists, watchPodUntilRunning       *)
(*                                                                         *)
(* A shell is a user in a namespace.  Its rights are bindings: that of all *)
(* administrators, or one for each team in the token of the request.  The  *)
(* names of bindings do not tell the namespace, so administrators share    *)
(* theirs, and so do a user's shells in several teams.  Teams may change   *)
(* between a creation and the deletion.  The half-hourly callback never    *)
(* deletes anything, since the log it asks for is that of a container no   *)
(* pod has (k8s-operations.ts:108, tty.ts:168), and is left out.           *)
(***************************************************************************)
EXTENDS Naturals, Sequences, Functions

CONSTANTS
    Shells,
    Bindings,       \* role bindings and the cluster role binding
    BindingsOf,     \* those the tokens of a shell's user may give it, in order
    Callers,        \* requests of users, one after the other
    ShellsOf,       \* the shells a caller's user has
    MaxCalls,       \* bound on requests that create or delete
    MaxFaults,      \* bound on calls and pods that fail, and restarts
    NoShell

ASSUME CloudTtyAssumption ==
    /\ BindingsOf \in [Shells -> SUBSET Seq(Bindings)]
    /\ ShellsOf \in [Callers -> SUBSET Shells]
    /\ NoShell \notin Shells
    /\ MaxCalls \in Nat /\ MaxFaults \in Nat

\* Objects every shell has of its own, beside the pod.
Objects == {"AuthorizationPolicy", "ServiceAccount", "Service", "HTTPRoute"}

VARIABLES
    objects,    \* those there are of each shell
    pod,        \* what Kubernetes says of its pod
    holder,     \* the shell a binding gives rights to
    does,       \* what a caller is doing
    about,      \* the shell it is about
    rights,     \* the bindings of the token it came with
    todo,       \* the objects it has yet to create or delete
    alone,      \* callers nobody met at their shell since they began
    torn,       \* shells left, or met by another caller, in the middle of something, or
                \* created with a pod on its way out
    taken,      \* history: the bindings of the token that last deleted a shell undisturbed
    calls,      \* requests so far
    faults      \* failures so far

ttyVars ==
    <<objects, pod, holder, does, about, rights, todo, alone, torn, taken, calls, faults>>

TtyInit ==
    /\ objects = [s \in Shells |-> {}]
    /\ pod = [s \in Shells |-> "none"]
    /\ holder = [b \in Bindings |-> NoShell]
    /\ does = [c \in Callers |-> "rest"]
    /\ about = [c \in Callers |-> NoShell]
    /\ rights = [c \in Callers |-> <<>>]
    /\ todo = [c \in Callers |-> <<>>]
    /\ alone = {}
    /\ torn = {}
    /\ taken = [s \in Shells |-> Bindings]
    /\ calls = 0
    /\ faults = 0

\* createTty and deleteTty go through the same objects in the same order, the bindings
\* being those of the token at hand.
Order(bs) ==
    <<"AuthorizationPolicy", "ServiceAccount", "Pod">> \o bs \o <<"Service", "HTTPRoute">>

Working == {c \in Callers : does[c] \in {"create", "delete"}}

Meets(c, s) == {d \in Working \ {c} : about[d] = s}

Fault ==
    /\ faults < MaxFaults
    /\ faults' = faults + 1

\* c begins to create or delete s.
Start(c, s, what) ==
    /\ calls < MaxCalls
    /\ calls' = calls + 1
    /\ does' = [does EXCEPT ![c] = what]
    /\ about' = [about EXCEPT ![c] = s]
    /\ \E bs \in BindingsOf[s] : /\ rights' = [rights EXCEPT ![c] = bs]
                                 /\ todo' = [todo EXCEPT ![c] = Order(bs)]
    /\ alone' = IF Meets(c, s) = {} THEN alone \cup {c} ELSE alone \ ({c} \cup Meets(c, s))
    /\ torn' = IF Meets(c, s) = {} THEN torn ELSE torn \cup {s}

\* checkPodExists: the phase of a pod being terminated is Running still.
Runs(s) == pod[s] \in {"running", "ending"}

\* connectCloudtty for a shell whose pod runs.
Reconnect(c, s) ==
    /\ does[c] = "rest"
    /\ Runs(s)
    /\ does' = [does EXCEPT ![c] = "answered"]
    /\ about' = [about EXCEPT ![c] = s]
    /\ UNCHANGED <<objects, pod, holder, rights, todo, alone, torn, taken, calls, faults>>

\* connectCloudtty for another one: createTty begins.
Connect(c, s) ==
    /\ does[c] = "rest"
    /\ ~Runs(s)
    /\ Start(c, s, "create")
    /\ UNCHANGED <<objects, pod, holder, taken, faults>>

DeleteCloudtty(c, s) ==
    /\ does[c] = "rest"
    /\ Start(c, s, "delete")
    /\ UNCHANGED <<objects, pod, holder, taken, faults>>

\* createOrPatch: an object that is there is overwritten; a pod keeps running, a binding
\* gives its rights to the shell it is created for.
CreatePod(s) == pod' = IF pod[s] = "none" THEN [pod EXCEPT ![s] = "pending"] ELSE pod

CreateBinding(s, b) == holder' = [holder EXCEPT ![b] = s]

Create(s, o) ==
    /\ objects' = IF o \in Objects THEN [objects EXCEPT ![s] = @ \cup {o}] ELSE objects
    /\ IF o = "Pod" THEN CreatePod(s) ELSE UNCHANGED pod
    /\ IF o \in Bindings THEN CreateBinding(s, o) ELSE UNCHANGED holder

\* Fault: the pod is not the one deleted.
Untouched(p) == p

\* A pod gets time to end; its phase stays what it was.
Terminated(p) ==
    CASE p \in {"pending", "failed"} -> "going"
      [] p = "running" -> "ending"
      [] OTHER -> p

\* deleteIfExists: the binding goes, whoever it is for.
Delete(s, o) ==
    /\ objects' = [objects EXCEPT ![s] = @ \ {o}]
    /\ pod' = IF o = "Pod" THEN [pod EXCEPT ![s] = Terminated(@)] ELSE pod
    /\ holder' = IF o \in Bindings THEN [holder EXCEPT ![o] = NoShell] ELSE holder

Rest(c) ==
    /\ does' = [does EXCEPT ![c] = "rest"]
    /\ about' = [about EXCEPT ![c] = NoShell]
    /\ rights' = [rights EXCEPT ![c] = <<>>]

\* A pod that is on its way out is patched, and goes.
PatchesInVain(c) ==
    does[c] = "create" /\ Head(todo[c]) = "Pod" /\ pod[about[c]] \in {"ending", "going"}

\* The next object is done with; after the last one a creation waits for the pod.
Advance(c) ==
    /\ todo' = [todo EXCEPT ![c] = Tail(@)]
    /\ IF Len(todo[c]) > 1
       THEN /\ UNCHANGED <<does, about, rights, taken>>
            /\ alone' = IF PatchesInVain(c) THEN alone \ {c} ELSE alone
            /\ torn' = IF PatchesInVain(c) THEN torn \cup {about[c]} ELSE torn
       ELSE /\ IF does[c] = "create"
               THEN does' = [does EXCEPT ![c] = "watch"] /\ UNCHANGED <<about, rights>>
               ELSE Rest(c)
            /\ alone' = alone \ {c}
            /\ torn' = IF c \in alone THEN torn \ {about[c]} ELSE torn
            /\ taken' = IF c \in alone /\ does[c] = "delete"
                        THEN [taken EXCEPT ![about[c]] = Range(rights[c])] ELSE taken
    /\ UNCHANGED <<calls, faults>>

\* Fault: the service is not deleted with the rest.
DeleteNextButService(c) ==
    /\ does[c] = "delete"
    /\ Delete(about[c], IF Head(todo[c]) = "Service" THEN "Pod" ELSE Head(todo[c]))
    /\ Advance(c)

CreateNext(c) ==
    /\ does[c] = "create"
    /\ Create(about[c], Head(todo[c]))
    /\ Advance(c)

DeleteNext(c) ==
    /\ does[c] = "delete"
    /\ Delete(about[c], Head(todo[c]))
    /\ Advance(c)

\* createOrPatch throws: what was created stays, the rest is not tried.
CreateFails(c) ==
    /\ does[c] = "create"
    /\ Fault
    /\ Rest(c)
    /\ todo' = [todo EXCEPT ![c] = <<>>]
    /\ alone' = alone \ {c}
    /\ torn' = torn \cup {about[c]}
    /\ UNCHANGED <<objects, pod, holder, taken, calls>>

\* deleteIfExists logs the error, and the next object's turn comes.
DeleteFails(c) ==
    /\ does[c] = "delete"
    /\ Fault
    /\ IF Len(todo[c]) > 1 THEN UNCHANGED <<does, about, rights>> ELSE Rest(c)
    /\ todo' = [todo EXCEPT ![c] = Tail(@)]
    /\ alone' = alone \ {c}
    /\ torn' = torn \cup {about[c]}
    /\ UNCHANGED <<objects, pod, holder, taken, calls>>

\* watchPodUntilRunning: asks every five seconds, for ever.
WatchPod(c) ==
    /\ does[c] = "watch"
    /\ Runs(about[c])
    /\ does' = [does EXCEPT ![c] = "answered"]
    /\ UNCHANGED <<objects, pod, holder, about, rights, todo, alone, torn, taken, calls, faults>>

\* The answer has gone out; the caller may come again.
Answer(c) ==
    /\ does[c] = "answered"
    /\ Rest(c)
    /\ UNCHANGED <<objects, pod, holder, todo, alone, torn, taken, calls, faults>>

-----------------------------------------------------------------------------
\* Kubernetes starts a pod, takes a deleted one away; a pod may fail.
PodMoves(s, from, to) ==
    /\ pod[s] = from
    /\ pod' = [pod EXCEPT ![s] = to]
    /\ UNCHANGED <<objects, holder, does, about, rights, todo, alone, torn, taken, calls>>

PodStarts(s) == PodMoves(s, "pending", "running") /\ UNCHANGED faults
PodEnds(s)   == (\E p \in {"ending", "going"} : PodMoves(s, p, "none")) /\ UNCHANGED faults
PodFails(s)  == Fault /\ \E p \in {"pending", "running"} : PodMoves(s, p, "failed")

\* The API restarts: requests end where they are.
TtyRestart ==
    /\ \E c \in Callers : does[c] # "rest"
    /\ Fault
    /\ does' = [c \in Callers |-> "rest"]
    /\ about' = [c \in Callers |-> NoShell]
    /\ rights' = [c \in Callers |-> <<>>]
    /\ todo' = [c \in Callers |-> <<>>]
    /\ alone' = {}
    /\ torn' = torn \cup {about[c] : c \in Working}
    /\ UNCHANGED <<objects, pod, holder, taken, calls>>

Serve(c) == CreateNext(c) \/ DeleteNext(c) \/ WatchPod(c) \/ Answer(c)

TtyNext ==
    \/ \E c \in Callers : \/ \E s \in ShellsOf[c] : \/ Reconnect(c, s) \/ Connect(c, s)
                                                  \/ DeleteCloudtty(c, s)
                          \/ Serve(c) \/ CreateFails(c) \/ DeleteFails(c)
    \/ \E s \in Shells : PodStarts(s) \/ PodEnds(s) \/ PodFails(s)
    \/ TtyRestart

TtySpec == TtyInit /\ [][TtyNext]_ttyVars

-----------------------------------------------------------------------------
Quiet(s) == s \notin torn /\ \A c \in Working : about[c] # s

Whole(s) == objects[s] = Objects

\* A shell nobody is working on is there with all its objects, or nothing of it is and
\* none of the bindings its deletion came for gives it rights, unless a call failed, two
\* callers met at it, or it was created again before its last pod was gone.  (The binding
\* of a team its user has left since the creation stays: deleteTty does not know it.)
AllOrNothing ==
    \A s \in Shells : Quiet(s) =>
      \/ Whole(s) /\ pod[s] # "none"
      \/ /\ objects[s] = {} /\ pod[s] \in {"none", "ending", "going"}
         /\ \A b \in taken[s] : holder[b] # s

\* A user is sent to a shell that can be reached, although connectCloudtty looks at the
\* phase of the pod only: otherwise a creation was cut short, or the pod is about to go.
WholeShell ==
    [][\A c \in Callers :
         /\ does[c] # "answered" /\ does'[c] = "answered"
         /\ Quiet(about'[c]) /\ pod[about'[c]] # "ending"
         => Whole(about'[c])]_ttyVars
=============================================================================
