--------------------------- MODULE CloudTtyProofs ---------------------------
(***************************************************************************)
(* A cloud shell is there as a whole or not at all, for every number of    *)
(* shells, bindings and callers, every number of requests and of failures. *)
(***************************************************************************)
EXTENDS CloudTty, TLAPS

Parts == Objects \cup {"Pod"} \cup Bindings
Here  == {"pending", "running", "failed"}
Gone  == {"none", "ending", "going"}

Steps(q) == {q[i] : i \in 1..Len(q)}

\* Every variable holds a value of its kind; who does something is about a shell.
TtyTypeOK ==
    /\ objects \in [Shells -> SUBSET Objects]
    /\ pod \in [Shells -> Here \cup Gone]
    /\ holder \in [Bindings -> Shells \cup {NoShell}]
    /\ does \in [Callers -> {"rest", "create", "delete", "watch", "answered"}]
    /\ about \in [Callers -> Shells \cup {NoShell}]
    /\ \A c \in Callers : does[c] # "rest" => about[c] \in Shells
    /\ rights \in [Callers -> Seq(Bindings)]
    /\ todo \in [Callers -> Seq(Parts)]
    /\ alone \subseteq Working
    /\ torn \subseteq Shells
    /\ taken \in [Shells -> SUBSET Bindings]
    /\ calls \in 0..MaxCalls
    /\ faults \in 0..MaxFaults

\* What is left to do is part of what createTty and deleteTty go through, to its end.
TodoOK(c) ==
    /\ todo[c] # <<>>
    /\ todo[c][Len(todo[c])] = "HTTPRoute"
    /\ Steps(todo[c]) \subseteq Steps(Order(rights[c]))

Created(s, o) ==
    /\ o \in Objects => o \in objects[s]
    /\ o = "Pod" => pod[s] \in Here

Deleted(s, o) ==
    /\ o \notin objects[s]
    /\ o = "Pod" => pod[s] \in Gone
    /\ o \in Bindings => holder[o] # s

\* What a caller has gone through is created or deleted.
Progress(c) ==
    \A o \in Steps(Order(rights[c])) \ Steps(todo[c]) :
        IF does[c] = "create" THEN Created(about[c], o) ELSE Deleted(about[c], o)

Complete(s) == Whole(s) /\ pod[s] \in Here

Clear(s) == objects[s] = {} /\ pod[s] \in Gone /\ \A b \in taken[s] : holder[b] # s

\* The strengthening of AllOrNothing: who works alone has brought the shell to where its
\* list says, who does not has it marked as torn.
TtyInductive ==
    /\ TtyTypeOK
    /\ \A c \in Working : TodoOK(c)
    /\ \A c \in alone : Meets(c, about[c]) = {} /\ Progress(c)
    /\ \A c \in Working \ alone : about[c] \in torn
    /\ \A s \in Shells : Quiet(s) => Complete(s) \/ Clear(s)

LEMMA OrderLemma ==
    ASSUME NEW bs \in Seq(Bindings)
    PROVE  /\ Order(bs) \in Seq(Parts) /\ Order(bs) # <<>>
           /\ Order(bs)[Len(Order(bs))] = "HTTPRoute"
           /\ Objects \cup {"Pod"} \subseteq Steps(Order(bs))
           /\ Range(bs) \subseteq Bindings /\ Range(bs) \subseteq Steps(Order(bs))
<1>. DEFINE n == Len(bs)
            q == Order(bs)
<1>1. n \in Nat
  OBVIOUS
<1>2. /\ q \in Seq(Parts) /\ Len(q) = n + 5
      /\ q[1] = "AuthorizationPolicy" /\ q[2] = "ServiceAccount" /\ q[3] = "Pod"
      /\ q[n + 4] = "Service" /\ q[n + 5] = "HTTPRoute"
      /\ \A i \in 1..n : q[i + 3] = bs[i]
  BY <1>1 DEF Order, Parts, Objects
<1>. HIDE DEF q
<1>3. Objects \cup {"Pod"} \subseteq Steps(q)
  <2>1. {1, 2, 3, n + 4, n + 5} \subseteq 1..Len(q)
    BY <1>1, <1>2
  <2>2. {q[1], q[2], q[3], q[n + 4], q[n + 5]} \subseteq Steps(q)
    BY <2>1 DEF Steps
  <2>3. QED
    BY <1>2, <2>2 DEF Objects
<1>4. q # <<>>
  BY <1>1, <1>2
<1>5. Range(bs) \subseteq Bindings /\ Range(bs) \subseteq Steps(q)
  <2>1. DOMAIN bs = 1..n /\ \A i \in 1..n : bs[i] \in Bindings
    OBVIOUS
  <2>2. \A i \in 1..n : i + 3 \in 1..Len(q) /\ q[i + 3] = bs[i]
    BY <1>1, <1>2
  <2>3. QED
    BY <2>1, <2>2 DEF Range, Steps
<1>6. QED
  BY <1>2, <1>3, <1>4, <1>5 DEF q

LEMMA TailLemma ==
    ASSUME NEW S, NEW q \in Seq(S), q # <<>>
    PROVE  /\ Tail(q) \in Seq(S) /\ Head(q) \in S
           /\ Steps(q) = {Head(q)} \cup Steps(Tail(q))
           /\ Len(q) > 1 => Tail(q) # <<>> /\ Tail(q)[Len(Tail(q))] = q[Len(q)]
           /\ ~(Len(q) > 1) => Steps(Tail(q)) = {} /\ Head(q) = q[Len(q)]
<1>1. /\ Len(q) \in Nat /\ Len(q) >= 1 /\ Head(q) = q[1]
      /\ Tail(q) \in Seq(S) /\ Len(Tail(q)) = Len(q) - 1
      /\ \A i \in 1..Len(Tail(q)) : Tail(q)[i] = q[i + 1]
  OBVIOUS
<1>2. Steps(q) \subseteq {Head(q)} \cup Steps(Tail(q))
  <2>1. ASSUME NEW i \in 1..Len(q) PROVE q[i] \in {Head(q)} \cup Steps(Tail(q))
    <3>1. CASE i = 1
      BY <1>1, <3>1
    <3>2. CASE i # 1
      <4>1. i - 1 \in 1..Len(Tail(q)) /\ Tail(q)[i - 1] = q[i]
        BY <1>1, <3>2
      <4>2. QED
        BY <4>1 DEF Steps
    <3>3. QED
      BY <3>1, <3>2
  <2>2. QED
    BY <2>1 DEF Steps
<1>3. {Head(q)} \cup Steps(Tail(q)) \subseteq Steps(q)
  <2>1. \A i \in 1..Len(Tail(q)) : i + 1 \in 1..Len(q)
    BY <1>1
  <2>2. QED
    BY <1>1, <2>1 DEF Steps
<1>4. ASSUME Len(q) > 1 PROVE Tail(q) # <<>> /\ Tail(q)[Len(Tail(q))] = q[Len(q)]
  <2>1. Len(Tail(q)) # Len(<<>>)
    BY <1>1, <1>4
  <2>2. Len(Tail(q)) \in 1..Len(Tail(q)) /\ Len(Tail(q)) + 1 = Len(q)
    BY <1>1, <1>4
  <2>3. QED
    BY <1>1, <2>1, <2>2
<1>5. ASSUME ~(Len(q) > 1) PROVE Steps(Tail(q)) = {} /\ Head(q) = q[Len(q)]
  BY <1>1, <1>5 DEF Steps
<1>6. QED
  BY <1>1, <1>2, <1>3, <1>4, <1>5

LEMMA InitTty == TtyInit => TtyInductive
<1>1. SUFFICES ASSUME TtyInit PROVE TtyInductive
  OBVIOUS
<1>2. Working = {} /\ alone = {}
  BY <1>1 DEF TtyInit, Working
<1>3. TtyTypeOK
  BY <1>1, <1>2, CloudTtyAssumption DEF TtyInit, TtyTypeOK, Here, Gone
<1>4. \A s \in Shells : Clear(s)
  BY <1>1, CloudTtyAssumption DEF TtyInit, Clear, Gone
<1>5. QED
  BY <1>2, <1>3, <1>4 DEF TtyInductive

\* Those who do not create or delete disturb nobody.
LEMMA IdleStep ==
    ASSUME TtyInductive, TtyTypeOK', UNCHANGED <<objects, pod, holder, todo, alone, torn, taken>>,
           Working' = Working,
           \A d \in Working :
               does'[d] = does[d] /\ about'[d] = about[d] /\ rights'[d] = rights[d]
    PROVE  TtyInductive'
<1>1. \A c \in Working : TodoOK(c)'
  BY DEF TtyInductive, TodoOK, Order
<1>2. \A s \in Shells : Quiet(s)' => Quiet(s)
  BY DEF Quiet
<1>3. \A c \in alone : c \in Working
  BY DEF TtyInductive, TtyTypeOK
<1>4. \A c \in alone : Progress(c)'
  BY <1>3 DEF TtyInductive, Progress, Created, Deleted, Order
<1>5. \A c \in alone : c \in Working /\ Meets(c, about[c])' = {}
  BY <1>3 DEF TtyInductive, Meets
<1>6. \A c \in alone : Meets(c, about[c])' = {} => {d \in Working' \ {c} : about'[d] = about'[c]} = {}
  BY <1>3 DEF Meets
<1>7. \A s \in Shells : Quiet(s)' => Complete(s)' \/ Clear(s)'
  BY <1>2 DEF TtyInductive, Complete, Whole, Clear
<1>8. QED
  BY <1>1, <1>4, <1>5, <1>6, <1>7 DEF TtyInductive, Meets, Order

LEMMA TypeUse ==
    ASSUME TtyInductive, NEW c \in Working
    PROVE  /\ c \in Callers /\ about[c] \in Shells
           /\ rights[c] \in Seq(Bindings)
           /\ todo[c] \in Seq(Parts) /\ todo[c] # <<>>
  BY DEF TtyInductive, TtyTypeOK, TodoOK, Working

LEMMA TypeStep == TtyInductive /\ [TtyNext]_ttyVars => TtyTypeOK'
<1>1. SUFFICES ASSUME TtyInductive, [TtyNext]_ttyVars PROVE TtyTypeOK'
  OBVIOUS
<1>. USE DEF TtyTypeOK, Working
<1>2. TtyTypeOK
  BY <1>1 DEF TtyInductive
<1>3. CASE UNCHANGED ttyVars
  BY <1>2, <1>3 DEF ttyVars
<1>4. ASSUME NEW c \in Callers, NEW s \in ShellsOf[c],
             Reconnect(c, s) \/ Connect(c, s) \/ DeleteCloudtty(c, s)
      PROVE  TtyTypeOK'
  <2>1. s \in Shells
    BY CloudTtyAssumption
  <2>2. CASE Reconnect(c, s)
    BY <1>2, <2>1, <2>2 DEF Reconnect
  <2>3. ASSUME NEW what \in {"create", "delete"}, Start(c, s, what), does[c] = "rest",
               UNCHANGED <<objects, pod, holder, taken, faults>>
        PROVE  TtyTypeOK'
    <3>1. PICK bs \in BindingsOf[s] : /\ rights' = [rights EXCEPT ![c] = bs]
                                      /\ todo' = [todo EXCEPT ![c] = Order(bs)]
      BY <2>3 DEF Start
    <3>2. bs \in Seq(Bindings) /\ Order(bs) \in Seq(Parts) /\ calls + 1 \in 0..MaxCalls
      BY <1>2, <2>1, <2>3, OrderLemma, CloudTtyAssumption DEF Start
    <3>3. alone' \subseteq alone \cup {c} /\ torn' \subseteq torn \cup {s}
      BY <2>3 DEF Start
    <3>4. /\ does' = [does EXCEPT ![c] = what] /\ about' = [about EXCEPT ![c] = s]
          /\ calls' = calls + 1
      BY <2>3 DEF Start
    <3>5. rights' \in [Callers -> Seq(Bindings)] /\ todo' \in [Callers -> Seq(Parts)]
      BY <1>2, <3>1, <3>2
    <3>6. /\ does' \in [Callers -> {"rest", "create", "delete", "watch", "answered"}]
          /\ about' \in [Callers -> Shells \cup {NoShell}]
          /\ \A d \in Callers : does'[d] # "rest" => about'[d] \in Shells
      BY <1>2, <2>1, <3>4
    <3>7. alone' \subseteq Working' /\ torn' \subseteq Shells
      BY <1>2, <2>1, <3>3, <3>4
    <3>8. QED
      BY <1>2, <2>3, <3>2, <3>4, <3>5, <3>6, <3>7
  <2>4. QED
    BY <1>4, <2>2, <2>3 DEF Connect, DeleteCloudtty
<1>4a. ASSUME NEW c \in Callers, Rest(c)
       PROVE  /\ does' \in [Callers -> {"rest", "create", "delete", "watch", "answered"}]
              /\ about' \in [Callers -> Shells \cup {NoShell}]
              /\ \A d \in Callers : does'[d] # "rest" => about'[d] \in Shells
              /\ rights' \in [Callers -> Seq(Bindings)]
              /\ Working \ {c} \subseteq Working'
  <2>1. <<>> \in Seq(Bindings)
    OBVIOUS
  <2>2. QED
    BY <1>2, <1>4a, <2>1 DEF Rest
<1>5. ASSUME NEW c \in Working, Advance(c),
             objects' \in [Shells -> SUBSET Objects], pod' \in [Shells -> Here \cup Gone],
             holder' \in [Bindings -> Shells \cup {NoShell}]
      PROVE  TtyTypeOK'
  <2>1. /\ Tail(todo[c]) \in Seq(Parts) /\ about[c] \in Shells
        /\ Range(rights[c]) \subseteq Bindings
    BY <1>1, TypeUse, TailLemma, OrderLemma
  <2>2. /\ todo' = [todo EXCEPT ![c] = Tail(@)] /\ UNCHANGED <<calls, faults>>
        /\ alone' \subseteq alone /\ torn' \subseteq torn \cup {about[c]}
        /\ \/ UNCHANGED <<does, about, rights>>
           \/ /\ c \notin alone' /\ does' = [does EXCEPT ![c] = "watch"]
              /\ UNCHANGED <<about, rights>>
           \/ c \notin alone' /\ Rest(c)
        /\ taken' \in {taken, [taken EXCEPT ![about[c]] = Range(rights[c])]}
    BY <1>5 DEF Advance
  <2>3. /\ todo' \in [Callers -> Seq(Parts)] /\ torn' \subseteq Shells
        /\ taken' \in [Shells -> SUBSET Bindings]
    <3>1. todo' \in [Callers -> Seq(Parts)] /\ torn' \subseteq Shells
      BY <1>2, <2>1, <2>2
    <3>2. taken' \in [Shells -> SUBSET Bindings]
      BY <1>2, <2>1, <2>2
    <3>3. QED
      BY <3>1, <3>2
  <2>4. CASE UNCHANGED <<does, about, rights>>
    BY <1>2, <1>5, <2>2, <2>3, <2>4
  <2>5. CASE c \notin alone' /\ does' = [does EXCEPT ![c] = "watch"] /\ UNCHANGED <<about, rights>>
    BY <1>2, <1>5, <2>2, <2>3, <2>5
  <2>6. CASE c \notin alone' /\ Rest(c)
    <3>1. c \in Callers
      OBVIOUS
    <3>2. alone' \subseteq Working'
      BY <1>2, <1>4a, <2>2, <2>6, <3>1
    <3>3. QED
      BY <1>2, <1>5, <1>4a, <2>2, <2>3, <2>6, <3>1, <3>2
  <2>7. QED
    BY <2>2, <2>4, <2>5, <2>6
<1>6. ASSUME NEW c \in Callers, CreateNext(c) \/ DeleteNext(c) PROVE TtyTypeOK'
  <2>1. c \in Working /\ Advance(c)
    BY <1>6 DEF CreateNext, DeleteNext
  <2>2. about[c] \in Shells
    BY <1>1, <2>1, TypeUse
  <2>3. /\ objects' \in [Shells -> SUBSET Objects]
        /\ pod' \in [Shells -> Here \cup Gone]
        /\ holder' \in [Bindings -> Shells \cup {NoShell}]
    <3>. PICK o, s : o = Head(todo[c]) /\ s = about[c]
      OBVIOUS
    <3>1. CASE Create(s, o)
      <4>1. objects' \in [Shells -> SUBSET Objects]
        BY <1>2, <2>2, <3>1 DEF Create
      <4>2. pod' \in [Shells -> Here \cup Gone]
        BY <1>2, <2>2, <3>1 DEF Create, CreatePod, Here
      <4>3. holder' \in [Bindings -> Shells \cup {NoShell}]
        BY <1>2, <2>2, <3>1 DEF Create, CreateBinding
      <4>4. QED
        BY <4>1, <4>2, <4>3
    <3>2. CASE Delete(s, o)
      <4>1. \A p \in Here \cup Gone : Terminated(p) \in Here \cup Gone
        BY DEF Terminated, Here, Gone
      <4>2. objects' \in [Shells -> SUBSET Objects] /\ pod' \in [Shells -> Here \cup Gone]
        BY <1>2, <2>2, <3>2, <4>1 DEF Delete
      <4>3. holder' \in [Bindings -> Shells \cup {NoShell}]
        BY <1>2, <3>2 DEF Delete
      <4>4. QED
        BY <4>2, <4>3
    <3>3. QED
      BY <1>6, <3>1, <3>2 DEF CreateNext, DeleteNext
  <2>4. QED
    BY <1>5, <2>1, <2>3
<1>7. ASSUME NEW c \in Callers, WatchPod(c) \/ Answer(c) PROVE TtyTypeOK'
  <2>1. CASE WatchPod(c)
    BY <1>2, <2>1 DEF WatchPod
  <2>2. CASE Answer(c)
    <3>1. c \notin Working /\ Rest(c)
      BY <2>2 DEF Answer
    <3>2. alone \subseteq Working'
      BY <1>2, <1>4a, <3>1
    <3>3. QED
      BY <1>2, <1>4a, <2>2, <3>1, <3>2 DEF Answer
  <2>3. QED
    BY <1>7, <2>1, <2>2
<1>8. Fault => faults' \in 0..MaxFaults
  BY <1>2, CloudTtyAssumption DEF Fault
<1>9. ASSUME NEW c \in Callers, CreateFails(c) \/ DeleteFails(c) PROVE TtyTypeOK'
  <2>1. c \in Working
    BY <1>9 DEF CreateFails, DeleteFails
  <2>2. Tail(todo[c]) \in Seq(Parts) /\ <<>> \in Seq(Parts) /\ about[c] \in Shells
    BY <1>1, <2>1, TypeUse, TailLemma
  <2>3. /\ \/ todo' = [todo EXCEPT ![c] = <<>>]
           \/ todo' = [todo EXCEPT ![c] = Tail(@)]
        /\ UNCHANGED <<objects, pod, holder, taken, calls>>
        /\ alone' = alone \ {c} /\ torn' = torn \cup {about[c]} /\ Fault
        /\ (UNCHANGED <<does, about, rights>>) \/ Rest(c)
    BY <1>9 DEF CreateFails, DeleteFails
  <2>4. todo' \in [Callers -> Seq(Parts)] /\ torn' \subseteq Shells
    BY <1>2, <2>2, <2>3
  <2>5. CASE UNCHANGED <<does, about, rights>>
    BY <1>2, <1>8, <2>3, <2>4, <2>5
  <2>6. CASE Rest(c)
    <3>1. alone' \subseteq Working'
      BY <1>2, <1>4a, <2>3, <2>6
    <3>2. QED
      BY <1>2, <1>8, <1>4a, <2>3, <2>4, <2>6, <3>1
  <2>7. QED
    BY <2>3, <2>5, <2>6
<1>10. ASSUME NEW s \in Shells, PodStarts(s) \/ PodEnds(s) \/ PodFails(s) PROVE TtyTypeOK'
  BY <1>2, <1>8, <1>10 DEF PodStarts, PodEnds, PodFails, PodMoves, Here, Gone
<1>11. CASE TtyRestart
  <2>1. torn' \subseteq Shells
    BY <1>2, <1>11 DEF TtyRestart
  <2>2. <<>> \in Seq(Parts) /\ <<>> \in Seq(Bindings)
    OBVIOUS
  <2>3. QED
    BY <1>2, <1>8, <1>11, <2>1, <2>2 DEF TtyRestart
<1>12. CASE TtyNext
  BY <1>4, <1>6, <1>7, <1>9, <1>10, <1>11, <1>12 DEF TtyNext, Serve
<1>13. QED
  BY <1>1, <1>3, <1>12

\* A creation or deletion begins: alone, or together with those who are at the shell.
LEMMA StartStep ==
    ASSUME TtyInductive, TtyTypeOK', NEW c \in Callers, NEW s \in Shells,
           NEW what \in {"create", "delete"}, does[c] = "rest", Start(c, s, what),
           UNCHANGED <<objects, pod, holder, taken>>
    PROVE  TtyInductive'
<1>. PICK bs \in BindingsOf[s] : /\ rights' = [rights EXCEPT ![c] = bs]
                                 /\ todo' = [todo EXCEPT ![c] = Order(bs)]
  BY DEF Start
<1>0. bs \in Seq(Bindings)
  BY CloudTtyAssumption
<1>1. /\ c \notin Working /\ c \notin alone /\ alone \subseteq Working
      /\ Working' = Working \cup {c}
      /\ about'[c] = s /\ rights'[c] = bs /\ todo'[c] = Order(bs)
      /\ \A d \in Working : /\ does'[d] = does[d] /\ about'[d] = about[d]
                            /\ rights'[d] = rights[d] /\ todo'[d] = todo[d]
  BY DEF TtyInductive, TtyTypeOK, Working, Start
<1>2. \A d \in Working' : TodoOK(d)'
  <2>1. TodoOK(c)'
    BY <1>0, <1>1, OrderLemma DEF TodoOK, Order
  <2>2. \A d \in Working : TodoOK(d)'
    BY <1>1 DEF TtyInductive, TodoOK, Order
  <2>3. QED
    BY <1>1, <2>1, <2>2
<1>3. ASSUME NEW d \in alone, about[d] # s
      PROVE  Meets(d, about[d])' = {} /\ Progress(d)'
  <2>1. d \in Working /\ Meets(d, about[d]) = {} /\ Progress(d)
    BY <1>1 DEF TtyInductive
  <2>2. Meets(d, about[d])' = {}
    BY <1>1, <1>3, <2>1 DEF Meets
  <2>3. Progress(d)'
    BY <1>1, <2>1 DEF Progress, Created, Deleted, Order
  <2>4. QED
    BY <2>2, <2>3
<1>4. \A t \in Shells : Quiet(t)' => Complete(t)' \/ Clear(t)'
  <2>1. \A t \in Shells : Quiet(t)' => Quiet(t)
    BY <1>1 DEF Quiet, Start
  <2>2. QED
    BY <2>1 DEF TtyInductive, Complete, Whole, Clear
<1>5. CASE Meets(c, s) = {}
  <2>1. alone' = alone \cup {c} /\ torn' = torn
    BY <1>5 DEF Start
  <2>2. \A d \in Working : about[d] # s
    BY <1>1, <1>5 DEF Meets
  <2>3. Meets(c, about[c])' = {}
    BY <1>1, <2>2 DEF Meets
  <2>4. Progress(c)'
    BY <1>1 DEF Progress, Order
  <2>5. \A d \in Working' \ alone' : about'[d] \in torn'
    BY <1>1, <2>1 DEF TtyInductive
  <2>6. QED
    BY <1>1, <1>2, <1>3, <1>4, <2>1, <2>2, <2>3, <2>4, <2>5 DEF TtyInductive, Order
<1>6. CASE Meets(c, s) # {}
  <2>1. alone' = alone \ ({c} \cup Meets(c, s)) /\ torn' = torn \cup {s}
    BY <1>6 DEF Start
  <2>2. \A d \in alone' : d \in alone /\ about[d] # s
    BY <1>1, <2>1 DEF Meets
  <2>3. \A d \in Working' \ alone' : about'[d] \in torn'
    BY <1>1, <2>1 DEF TtyInductive, Meets
  <2>4. QED
    BY <1>1, <1>2, <1>3, <1>4, <2>1, <2>2, <2>3 DEF TtyInductive, Order
<1>7. QED
  BY <1>5, <1>6

\* A caller goes on, or gives up, at its shell: what holds of the others stays, what
\* holds of the shell is what that caller makes of it.
LEMMA WorkStep ==
    ASSUME TtyInductive, TtyTypeOK', NEW c \in Working, NEW s \in Shells, s = about[c],
           \A t \in Shells \ {s} :
               objects'[t] = objects[t] /\ pod'[t] = pod[t] /\ taken'[t] = taken[t],
           \A b \in Bindings : holder'[b] \in {holder[b], NoShell, s},
           \A d \in Callers \ {c} : /\ does'[d] = does[d] /\ about'[d] = about[d]
                                     /\ rights'[d] = rights[d] /\ todo'[d] = todo[d],
           alone' \in {alone, alone \ {c}},
           torn' \ {s} = torn \ {s},
           s \in torn \ torn' => c \in alone,
           \/ /\ c \in Working' /\ about'[c] = s
              /\ TodoOK(c)'
              /\ IF c \in alone' THEN Progress(c)' ELSE s \in torn'
           \/ /\ c \notin Working' /\ c \notin alone'
              /\ s \notin torn' => Complete(s)' \/ Clear(s)'
    PROVE  TtyInductive'
<1>1. TtyTypeOK /\ alone \subseteq Working /\ c \in Callers
  BY DEF TtyInductive, TtyTypeOK, Working
<1>2. \A d \in Callers \ {c} : d \in Working' <=> d \in Working
  BY DEF Working
<1>4. \A d \in Working' : TodoOK(d)'
  <2>1. ASSUME NEW d \in Working' \ {c} PROVE TodoOK(d)'
    BY <1>2 DEF TtyInductive, TodoOK, Order, Working
  <2>2. QED
    BY <2>1
<1>5. ASSUME NEW d \in alone' \ {c} PROVE Meets(d, about[d])' = {} /\ Progress(d)'
  <2>1. d \in alone /\ d \in Working /\ d \in Callers /\ about[d] \in Shells
    BY <1>1, TypeUse
  <2>2. Meets(d, about[d]) = {} /\ Progress(d)
    BY <2>1 DEF TtyInductive
  <2>3. about[d] # s
    BY <2>2 DEF Meets
  <2>4. /\ does'[d] = does[d] /\ about'[d] = about[d]
        /\ rights'[d] = rights[d] /\ todo'[d] = todo[d]
    BY <2>1
  <2>5. Meets(d, about[d])' = {}
    BY <1>2, <2>2, <2>3, <2>4 DEF Meets, Working
  <2>6. \A o : Created(about[d], o) => Created(about[d], o)'
    BY <2>1, <2>3, <2>4 DEF Created
  <2>7. \A o : Deleted(about[d], o) => Deleted(about[d], o)'
    BY <2>1, <2>3, <2>4, CloudTtyAssumption DEF Deleted
  <2>8. Progress(d)'
    BY <2>2, <2>4, <2>6, <2>7 DEF Progress, Order
  <2>9. QED
    BY <2>5, <2>8
<1>6. c \in alone' => Meets(c, about[c])' = {}
  <2>1. SUFFICES ASSUME c \in alone' PROVE Meets(c, about[c])' = {}
    OBVIOUS
  <2>2. c \in alone /\ Meets(c, s) = {} /\ about'[c] = s
    BY <2>1 DEF TtyInductive
  <2>3. QED
    BY <1>2, <2>2 DEF Meets, Working
<1>7. \A d \in alone' : Meets(d, about[d])' = {} /\ Progress(d)'
  BY <1>5, <1>6
<1>8. ASSUME NEW d \in Working' \ alone' PROVE about'[d] \in torn'
  <2>1. CASE d = c
    BY <2>1
  <2>2. CASE d # c
    <3>1. d \in Working \ alone /\ about[d] \in torn /\ about'[d] = about[d]
      BY <1>2, <2>2 DEF TtyInductive, Working
    <3>2. c \in alone => about[d] # s
      BY <2>2, <3>1 DEF TtyInductive, Meets
    <3>3. QED
      BY <3>1, <3>2
  <2>3. QED
    BY <2>1, <2>2
<1>9. ASSUME NEW t \in Shells, Quiet(t)' PROVE Complete(t)' \/ Clear(t)'
  <2>1. CASE t = s
    BY <1>9, <2>1 DEF Quiet
  <2>2. CASE t # s
    <3>1. t \notin torn
      BY <1>9, <2>2 DEF Quiet
    <3>2. Quiet(t)
      <4>1. ASSUME NEW d \in Working, about[d] = t PROVE FALSE
        <5>1. d # c /\ d \in Callers
          BY <2>2, <4>1 DEF Working
        <5>2. d \in Working' /\ about'[d] = t
          BY <1>2, <4>1, <5>1
        <5>3. QED
          BY <1>9, <5>2 DEF Quiet
      <4>2. QED
        BY <3>1, <4>1 DEF Quiet
    <3>3. Complete(t) \/ Clear(t)
      BY <3>2 DEF TtyInductive
    <3>4. QED
      BY <1>1, <2>2, <3>3, CloudTtyAssumption DEF Complete, Whole, Clear, TtyTypeOK
  <2>3. QED
    BY <2>1, <2>2
<1>10. QED
  BY <1>4, <1>7, <1>8, <1>9 DEF TtyInductive, Order

\* Where the list of a caller goes on or ends.
LEMMA AdvanceLemma ==
    ASSUME TtyInductive, NEW c \in Working, Advance(c)
    PROVE  /\ \A d \in Callers \ {c} : /\ does'[d] = does[d] /\ about'[d] = about[d]
                                        /\ rights'[d] = rights[d] /\ todo'[d] = todo[d]
           /\ \A t \in Shells \ {about[c]} : taken'[t] = taken[t]
           /\ todo'[c] = Tail(todo[c])
           /\ Steps(todo[c]) = {Head(todo[c])} \cup Steps(Tail(todo[c]))
           /\ \/ /\ c \in Working' /\ about'[c] = about[c] /\ does'[c] = does[c]
                 /\ rights'[c] = rights[c]
                 /\ TodoOK(c)'
                 /\ IF PatchesInVain(c)
                    THEN alone' = alone \ {c} /\ torn' = torn \cup {about[c]}
                    ELSE alone' = alone /\ torn' = torn
              \/ /\ c \notin Working' /\ alone' = alone \ {c}
                 /\ torn' = IF c \in alone THEN torn \ {about[c]} ELSE torn
                 /\ c \in alone /\ does[c] = "delete" => taken'[about[c]] = Range(rights[c])
                 /\ Steps(Tail(todo[c])) = {} /\ Head(todo[c]) = "HTTPRoute"
<1>1. /\ c \in Callers /\ about[c] \in Shells /\ todo[c] \in Seq(Parts) /\ todo[c] # <<>>
      /\ TodoOK(c) /\ TtyTypeOK
  BY TypeUse DEF TtyInductive
<1>2. /\ todo' = [todo EXCEPT ![c] = Tail(@)]
      /\ todo'[c] = Tail(todo[c])
      /\ Steps(todo[c]) = {Head(todo[c])} \cup Steps(Tail(todo[c]))
      /\ \A d \in Callers \ {c} : todo'[d] = todo[d]
  BY <1>1, TailLemma DEF Advance, TtyTypeOK
<1>3. \A t \in Shells \ {about[c]} : taken'[t] = taken[t]
  BY <1>1 DEF Advance, TtyTypeOK
<1>4. CASE Len(todo[c]) > 1
  <2>1. /\ UNCHANGED <<does, about, rights>>
        /\ IF PatchesInVain(c)
           THEN alone' = alone \ {c} /\ torn' = torn \cup {about[c]}
           ELSE alone' = alone /\ torn' = torn
    BY <1>4 DEF Advance
  <2>2. /\ Tail(todo[c]) # <<>>
        /\ Tail(todo[c])[Len(Tail(todo[c]))] = todo[c][Len(todo[c])]
    BY <1>1, <1>4, TailLemma
  <2>3. TodoOK(c)'
    BY <1>1, <1>2, <2>1, <2>2 DEF TodoOK, Order
  <2>4. c \in Working'
    BY <2>1 DEF Working
  <2>5. QED
    BY <1>2, <1>3, <2>1, <2>3, <2>4
<1>5. CASE ~(Len(todo[c]) > 1)
  <2>1. /\ does'[c] \in {"watch", "rest"}
        /\ \A d \in Callers \ {c} :
              does'[d] = does[d] /\ about'[d] = about[d] /\ rights'[d] = rights[d]
        /\ c \in alone /\ does[c] = "delete" => taken'[about[c]] = Range(rights[c])
        /\ alone' = alone \ {c}
        /\ torn' = IF c \in alone THEN torn \ {about[c]} ELSE torn
    BY <1>1, <1>5 DEF Advance, Rest, TtyTypeOK
  <2>2. Steps(Tail(todo[c])) = {} /\ Head(todo[c]) = "HTTPRoute"
    BY <1>1, <1>5, TailLemma DEF TodoOK
  <2>3. c \notin Working'
    BY <2>1 DEF Working
  <2>4. QED
    BY <1>2, <1>3, <2>1, <2>2, <2>3
<1>6. QED
  BY <1>4, <1>5

\* Somebody who is not alone has the shell marked.
LEMMA NotAlone ==
    ASSUME TtyInductive, NEW c \in Working, c \notin alone
    PROVE  about[c] \in torn
  BY DEF TtyInductive

LEMMA CreateStep ==
    ASSUME TtyInductive, TtyTypeOK', NEW c \in Callers, CreateNext(c)
    PROVE  TtyInductive'
<1>. PICK s, o : s = about[c] /\ o = Head(todo[c])
  OBVIOUS
<1>1. c \in Working /\ does[c] = "create" /\ Advance(c) /\ Create(s, o)
  BY DEF CreateNext, Working
<1>2. s \in Shells /\ TtyTypeOK
  BY <1>1, TypeUse DEF TtyInductive
<1>3. \A t \in Shells \ {s} : taken'[t] = taken[t]
  BY <1>1, AdvanceLemma
<1>4. /\ \A t \in Shells \ {s} :
            objects'[t] = objects[t] /\ pod'[t] = pod[t] /\ taken'[t] = taken[t]
      /\ objects'[s] = objects[s] \cup ({o} \cap Objects)
      /\ pod'[s] = IF o = "Pod" /\ pod[s] = "none" THEN "pending" ELSE pod[s]
  BY <1>1, <1>2, <1>3 DEF Create, CreatePod, TtyTypeOK
<1>5. \A b \in Bindings : holder'[b] \in {holder[b], NoShell, s}
  BY <1>1, <1>2 DEF Create, CreateBinding, TtyTypeOK
<1>6. ASSUME c \in alone, ~PatchesInVain(c)
      PROVE  \A p \in Steps(Order(rights[c])) \ Steps(Tail(todo[c])) : Created(s, p)'
  <2>1. \A p \in Steps(Order(rights[c])) \ Steps(todo[c]) : Created(s, p)
    BY <1>1, <1>6 DEF TtyInductive, Progress
  <2>2. \A p : Created(s, p) => Created(s, p)'
    BY <1>4 DEF Created, Here
  <2>3. Created(s, o)'
    BY <1>1, <1>2, <1>4, <1>6 DEF Created, Here, Gone, PatchesInVain, TtyTypeOK
  <2>4. QED
    BY <1>1, <2>1, <2>2, <2>3, AdvanceLemma
<1>7. CASE c \in Working'
  <2>1. /\ about'[c] = s /\ does'[c] = "create" /\ rights'[c] = rights[c]
        /\ TodoOK(c)' /\ todo'[c] = Tail(todo[c])
        /\ IF PatchesInVain(c) THEN alone' = alone \ {c} /\ torn' = torn \cup {s}
                               ELSE alone' = alone /\ torn' = torn
    BY <1>1, <1>7, AdvanceLemma
  <2>2. IF c \in alone' THEN Progress(c)' ELSE s \in torn'
    <3>1. CASE c \in alone'
      BY <1>6, <2>1, <3>1 DEF Progress, Order
    <3>2. CASE c \notin alone'
      BY <1>1, <2>1, <3>2, NotAlone
    <3>3. QED
      BY <3>1, <3>2
  <2>3. alone' \in {alone, alone \ {c}} /\ torn' \ {s} = torn \ {s} /\ (s \in torn => s \in torn')
    BY <2>1
  <2>4. QED
    BY <1>1, <1>2, <1>4, <1>5, <1>7, <2>1, <2>2, <2>3, AdvanceLemma, WorkStep
<1>8. CASE c \notin Working'
  <2>1. /\ alone' = alone \ {c} /\ o = "HTTPRoute" /\ Steps(Tail(todo[c])) = {}
        /\ torn' = IF c \in alone THEN torn \ {s} ELSE torn
    BY <1>1, <1>8, AdvanceLemma
  <2>2. ASSUME s \notin torn' PROVE Complete(s)'
    <3>1. c \in alone
      BY <1>1, <2>1, <2>2, NotAlone
    <3>2. ~PatchesInVain(c)
      BY <2>1 DEF PatchesInVain
    <3>3. \A p \in Objects \cup {"Pod"} : Created(s, p)'
      BY <1>1, <1>2, <1>6, <2>1, <3>1, <3>2, TypeUse, OrderLemma
    <3>4. objects'[s] \in SUBSET Objects
      BY <1>2 DEF TtyTypeOK
    <3>5. QED
      BY <3>3, <3>4 DEF Created, Complete, Whole
  <2>3. alone' \in {alone, alone \ {c}} /\ torn' \ {s} = torn \ {s} /\ c \notin alone'
        /\ (s \in torn \ torn' => c \in alone)
    BY <2>1
  <2>4. QED
    BY <1>1, <1>2, <1>4, <1>5, <1>8, <2>2, <2>3, AdvanceLemma, WorkStep
<1>9. QED
  BY <1>7, <1>8

LEMMA DeleteStep ==
    ASSUME TtyInductive, TtyTypeOK', NEW c \in Callers, DeleteNext(c)
    PROVE  TtyInductive'
<1>. PICK s, o : s = about[c] /\ o = Head(todo[c])
  OBVIOUS
<1>1. c \in Working /\ does[c] = "delete" /\ Advance(c) /\ Delete(s, o) /\ ~PatchesInVain(c)
  BY DEF DeleteNext, Working, PatchesInVain
<1>2. s \in Shells /\ s # NoShell /\ TtyTypeOK
  BY <1>1, TypeUse, CloudTtyAssumption DEF TtyInductive
<1>2a. \A t \in Shells \ {s} : taken'[t] = taken[t]
  BY <1>1, AdvanceLemma
<1>3. /\ \A t \in Shells \ {s} :
            objects'[t] = objects[t] /\ pod'[t] = pod[t] /\ taken'[t] = taken[t]
      /\ objects'[s] = objects[s] \ {o}
      /\ pod'[s] = IF o = "Pod" THEN Terminated(pod[s]) ELSE pod[s]
  BY <1>1, <1>2, <1>2a DEF Delete, TtyTypeOK
<1>4. \A b \in Bindings : holder'[b] = IF b = o THEN NoShell ELSE holder[b]
  BY <1>1, <1>2 DEF Delete, TtyTypeOK
<1>5. Terminated(pod[s]) \in Gone
  BY <1>2 DEF Terminated, Here, Gone, TtyTypeOK
<1>6. ASSUME c \in alone
      PROVE  \A p \in Steps(Order(rights[c])) \ Steps(Tail(todo[c])) : Deleted(s, p)'
  <2>1. \A p \in Steps(Order(rights[c])) \ Steps(todo[c]) : Deleted(s, p)
    BY <1>1, <1>6 DEF TtyInductive, Progress
  <2>2. \A p : Deleted(s, p) => Deleted(s, p)'
    BY <1>2, <1>3, <1>4, <1>5 DEF Deleted
  <2>3. Deleted(s, o)'
    BY <1>2, <1>3, <1>4, <1>5 DEF Deleted
  <2>4. QED
    BY <1>1, <2>1, <2>2, <2>3, AdvanceLemma
<1>7. \A b \in Bindings : holder'[b] \in {holder[b], NoShell, s}
  BY <1>4
<1>8. CASE c \in Working'
  <2>1. /\ about'[c] = s /\ does'[c] = "delete" /\ rights'[c] = rights[c]
        /\ TodoOK(c)' /\ todo'[c] = Tail(todo[c])
        /\ alone' = alone /\ torn' = torn
    BY <1>1, <1>8, AdvanceLemma
  <2>2. IF c \in alone' THEN Progress(c)' ELSE s \in torn'
    <3>1. CASE c \in alone'
      BY <1>6, <2>1, <3>1 DEF Progress, Order
    <3>2. CASE c \notin alone'
      BY <1>1, <2>1, <3>2, NotAlone
    <3>3. QED
      BY <3>1, <3>2
  <2>3. QED
    BY <1>1, <1>2, <1>3, <1>7, <1>8, <2>1, <2>2, AdvanceLemma, WorkStep
<1>9. CASE c \notin Working'
  <2>1. /\ alone' = alone \ {c} /\ Steps(Tail(todo[c])) = {}
        /\ torn' = IF c \in alone THEN torn \ {s} ELSE torn
        /\ c \in alone => taken'[s] = Range(rights[c])
    BY <1>1, <1>9, AdvanceLemma
  <2>2. ASSUME s \notin torn' PROVE Clear(s)'
    <3>1. c \in alone
      BY <1>1, <2>1, <2>2, NotAlone
    <3>2. \A p \in Steps(Order(rights[c])) : Deleted(s, p)'
      BY <1>6, <2>1, <3>1
    <3>3. /\ Objects \cup {"Pod"} \subseteq Steps(Order(rights[c]))
          /\ Range(rights[c]) \subseteq Bindings
          /\ Range(rights[c]) \subseteq Steps(Order(rights[c]))
      BY <1>1, TypeUse, OrderLemma
    <3>4. objects'[s] = {} /\ pod'[s] \in Gone
      <4>1. objects'[s] \in SUBSET Objects
        BY <1>2 DEF TtyTypeOK
      <4>2. QED
        BY <1>2, <3>2, <3>3, <4>1 DEF Deleted
    <3>5. \A b \in taken'[s] : holder'[b] # s
      BY <2>1, <3>1, <3>2, <3>3 DEF Deleted
    <3>6. QED
      BY <3>4, <3>5 DEF Clear
  <2>3. alone' \in {alone, alone \ {c}} /\ torn' \ {s} = torn \ {s} /\ c \notin alone'
        /\ (s \in torn \ torn' => c \in alone)
    BY <2>1
  <2>4. QED
    BY <1>1, <1>2, <1>3, <1>7, <1>9, <2>2, <2>3, AdvanceLemma, WorkStep
<1>10. QED
  BY <1>8, <1>9

\* A call that failed leaves the shell marked.
LEMMA FailsStep ==
    ASSUME TtyInductive, TtyTypeOK', NEW c \in Callers, CreateFails(c) \/ DeleteFails(c)
    PROVE  TtyInductive'
<1>. PICK s : s = about[c]
  OBVIOUS
<1>1. c \in Working /\ s \in Shells /\ TtyTypeOK /\ TodoOK(c)
      /\ todo[c] \in Seq(Parts) /\ todo[c] # <<>>
  BY TypeUse DEF CreateFails, DeleteFails, Working, TtyInductive
<1>2. /\ UNCHANGED <<objects, pod, holder, taken>>
      /\ alone' = alone \ {c} /\ torn' = torn \cup {s}
  BY DEF CreateFails, DeleteFails
<1>3. \A d \in Callers \ {c} : /\ does'[d] = does[d] /\ about'[d] = about[d]
                               /\ rights'[d] = rights[d] /\ todo'[d] = todo[d]
  BY <1>1 DEF CreateFails, DeleteFails, Rest, TtyTypeOK
<1>4. \/ c \in Working' /\ about'[c] = s /\ TodoOK(c)'
      \/ c \notin Working'
  <2>1. CASE CreateFails(c) \/ ~(Len(todo[c]) > 1)
    <3>1. Rest(c)
      BY <2>1 DEF CreateFails, DeleteFails
    <3>2. does'[c] = "rest"
      BY <1>1, <3>1 DEF Rest, TtyTypeOK
    <3>3. QED
      BY <3>2 DEF Working
  <2>2. CASE DeleteFails(c) /\ Len(todo[c]) > 1
    <3>1. UNCHANGED <<does, about, rights>> /\ todo'[c] = Tail(todo[c])
      BY <1>1, <2>2 DEF DeleteFails, TtyTypeOK
    <3>2. /\ Tail(todo[c]) # <<>> /\ Steps(Tail(todo[c])) \subseteq Steps(todo[c])
          /\ Tail(todo[c])[Len(Tail(todo[c]))] = todo[c][Len(todo[c])]
      BY <1>1, <2>2, TailLemma
    <3>3. TodoOK(c)'
      BY <1>1, <3>1, <3>2 DEF TodoOK, Order
    <3>4. c \in Working'
      BY <1>1, <3>1 DEF Working
    <3>5. QED
      BY <3>1, <3>3, <3>4
  <2>3. QED
    BY <2>1, <2>2
<1>5. QED
  BY <1>1, <1>2, <1>3, <1>4, WorkStep

\* Kubernetes moves pods among those that are here, or among those that go.
LEMMA PodStep ==
    ASSUME TtyInductive, TtyTypeOK',
           \A s \in Shells : pod'[s] \in Here <=> pod[s] \in Here,
           UNCHANGED <<objects, holder, does, about, rights, todo, alone, torn, taken>>
    PROVE  TtyInductive'
<1>1. TtyTypeOK /\ UNCHANGED Working
  BY DEF TtyInductive, Working
<1>2. \A s \in Shells : pod'[s] \in Gone <=> pod[s] \in Gone
  BY <1>1 DEF TtyTypeOK, Here, Gone
<1>3. ASSUME NEW c \in alone PROVE Meets(c, about[c])' = {} /\ Progress(c)'
  <2>1. c \in Working /\ about[c] \in Shells /\ Meets(c, about[c]) = {} /\ Progress(c)
    BY <1>1, TypeUse DEF TtyInductive, TtyTypeOK
  <2>2. \A o : /\ Created(about[c], o) => Created(about[c], o)'
               /\ Deleted(about[c], o) => Deleted(about[c], o)'
    BY <1>2, <2>1 DEF Created, Deleted
  <2>3. QED
    BY <1>1, <2>1, <2>2 DEF Progress, Order, Meets
<1>4. \A c \in Working : TodoOK(c)'
  BY DEF TtyInductive, TodoOK, Order
<1>5. \A s \in Shells : Quiet(s)' => Complete(s)' \/ Clear(s)'
  BY <1>1, <1>2 DEF TtyInductive, Quiet, Complete, Whole, Clear
<1>6. QED
  BY <1>1, <1>3, <1>4, <1>5 DEF TtyInductive, Order

\* The API restarts: every shell somebody was working on is marked.
LEMMA RestartStep ==
    ASSUME TtyInductive, TtyTypeOK', TtyRestart
    PROVE  TtyInductive'
<1>1. /\ Working' = {} /\ alone' = {} /\ UNCHANGED <<objects, pod, holder, taken>>
      /\ torn' = torn \cup {about[c] : c \in Working}
  BY DEF TtyRestart, Working
<1>2. \A s \in Shells : Quiet(s)' => Quiet(s)
  BY <1>1 DEF Quiet
<1>3. QED
  BY <1>1, <1>2 DEF TtyInductive, Complete, Whole, Clear, Order

LEMMA NextTty == TtyInductive /\ [TtyNext]_ttyVars => TtyInductive'
<1>1. SUFFICES ASSUME TtyInductive, [TtyNext]_ttyVars PROVE TtyInductive'
  OBVIOUS
<1>2. TtyTypeOK /\ TtyTypeOK'
  BY <1>1, TypeStep DEF TtyInductive
<1>3. CASE UNCHANGED ttyVars
  BY <1>1, <1>2, <1>3, PodStep DEF ttyVars
<1>4. ASSUME NEW c \in Callers, NEW s \in ShellsOf[c],
             Reconnect(c, s) \/ Connect(c, s) \/ DeleteCloudtty(c, s)
      PROVE  TtyInductive'
  <2>1. s \in Shells
    BY CloudTtyAssumption
  <2>2. CASE Reconnect(c, s)
    <3>1. /\ UNCHANGED <<objects, pod, holder, todo, alone, torn, taken>> /\ c \notin Working
          /\ Working' = Working
          /\ \A d \in Working :
                does'[d] = does[d] /\ about'[d] = about[d] /\ rights'[d] = rights[d]
      BY <1>2, <2>2 DEF Reconnect, Working, TtyTypeOK
    <3>2. QED
      BY <1>1, <1>2, <3>1, IdleStep
  <2>3. CASE Connect(c, s)
    BY <1>1, <1>2, <2>1, <2>3, StartStep DEF Connect
  <2>4. CASE DeleteCloudtty(c, s)
    BY <1>1, <1>2, <2>1, <2>4, StartStep DEF DeleteCloudtty
  <2>5. QED
    BY <1>4, <2>2, <2>3, <2>4
<1>5. ASSUME NEW c \in Callers, WatchPod(c) \/ Answer(c) PROVE TtyInductive'
  <2>1. /\ UNCHANGED <<objects, pod, holder, todo, alone, torn, taken>> /\ Working' = Working
        /\ \A d \in Working :
              does'[d] = does[d] /\ about'[d] = about[d] /\ rights'[d] = rights[d]
    BY <1>2, <1>5 DEF WatchPod, Answer, Rest, Working, TtyTypeOK
  <2>2. QED
    BY <1>1, <1>2, <2>1, IdleStep
<1>6. ASSUME NEW c \in Callers,
             CreateNext(c) \/ DeleteNext(c) \/ CreateFails(c) \/ DeleteFails(c)
      PROVE  TtyInductive'
  BY <1>1, <1>2, <1>6, CreateStep, DeleteStep, FailsStep
<1>7. ASSUME NEW s \in Shells, PodStarts(s) \/ PodEnds(s) \/ PodFails(s) PROVE TtyInductive'
  <2>1. /\ UNCHANGED <<objects, holder, does, about, rights, todo, alone, torn, taken>>
        /\ \A t \in Shells : pod'[t] \in Here <=> pod[t] \in Here
    BY <1>2, <1>7 DEF PodStarts, PodEnds, PodFails, PodMoves, Here, TtyTypeOK
  <2>2. QED
    BY <1>1, <1>2, <2>1, PodStep
<1>8. CASE TtyRestart
  BY <1>1, <1>2, <1>8, RestartStep
<1>9. CASE TtyNext
  BY <1>4, <1>5, <1>6, <1>7, <1>8, <1>9 DEF TtyNext, Serve
<1>10. QED
  BY <1>1, <1>3, <1>9

-----------------------------------------------------------------------------
\* Of createTty and deleteTty together: whoever works on a shell without meeting another
\* caller has created, or deleted, exactly what its list says it is past.
THEOREM InductiveInvariant == TtySpec => []TtyInductive
  BY InitTty, NextTty, PTL DEF TtySpec

LEMMA CompleteOrClear == TtyInductive => AllOrNothing
  BY DEF TtyInductive, AllOrNothing, Complete, Clear, Here, Gone

\* A shell nobody is working on is there with its pod and all its objects, or nothing of
\* it is and no binding that its deletion came for gives it rights, whichever teams the
\* tokens name, unless a call of createTty or deleteTty failed, two callers met at it, or
\* it was created again before its last pod was gone.
THEOREM WholeOrGone == TtySpec => []AllOrNothing
  BY InductiveInvariant, CompleteOrClear, PTL

LEMMA ShownStep ==
    ASSUME TtyInductive, [TtyNext]_ttyVars, NEW c \in Callers,
           does[c] # "answered", does'[c] = "answered",
           Quiet(about'[c]), pod[about'[c]] # "ending"
    PROVE  Whole(about'[c])
<1>1. TtyTypeOK
  BY DEF TtyInductive
<1>2. about'[c] \in Shells /\ Runs(about'[c])
  <2>1. ASSUME NEW d \in Callers, NEW s \in ShellsOf[d], Reconnect(d, s)
        PROVE  about'[c] \in Shells /\ Runs(about'[c])
    BY <1>1, <2>1, CloudTtyAssumption DEF Reconnect, TtyTypeOK
  <2>2. ASSUME NEW d \in Callers, WatchPod(d)
        PROVE  about'[c] \in Shells /\ Runs(about'[c])
    BY <1>1, <2>2 DEF WatchPod, TtyTypeOK
  <2>3. ASSUME NEW d \in Callers, NEW s \in ShellsOf[d],
               Connect(d, s) \/ DeleteCloudtty(d, s)
        PROVE  FALSE
    BY <1>1, <2>3 DEF Connect, DeleteCloudtty, Start, TtyTypeOK
  <2>4. ASSUME NEW d \in Callers,
               \/ CreateNext(d) \/ DeleteNext(d) \/ Answer(d)
               \/ CreateFails(d) \/ DeleteFails(d)
        PROVE  FALSE
    BY <1>1, <2>4
       DEF CreateNext, DeleteNext, Advance, Rest, Answer, CreateFails, DeleteFails, TtyTypeOK
  <2>5. ~(UNCHANGED does) /\ ~TtyRestart
    BY <1>1 DEF TtyRestart, TtyTypeOK
  <2>6. \A s \in Shells : ~(PodStarts(s) \/ PodEnds(s) \/ PodFails(s))
    BY <2>5 DEF PodStarts, PodEnds, PodFails, PodMoves
  <2>7. TtyNext
    BY <2>5 DEF ttyVars
  <2>8. QED
    BY <2>1, <2>2, <2>3, <2>4, <2>5, <2>6, <2>7 DEF TtyNext, Serve
<1>3. Complete(about'[c]) \/ Clear(about'[c])
  BY <1>2 DEF TtyInductive
<1>4. QED
  BY <1>2, <1>3 DEF Complete, Clear, Runs, Gone

\* A user is sent to a shell with all its objects: connectCloudtty and watchPodUntilRunning
\* look at the phase of its pod only, and it is as good as looking at them all, unless a
\* creation was cut short or the pod is about to go.
THEOREM WholeShellShown == TtySpec => WholeShell
<1>1. TtyInductive /\ [TtyNext]_ttyVars =>
        [\A c \in Callers :
           /\ does[c] # "answered" /\ does'[c] = "answered"
           /\ Quiet(about'[c]) /\ pod[about'[c]] # "ending"
           => Whole(about'[c])]_ttyVars
  BY ShownStep
<1>2. QED
  BY <1>1, InductiveInvariant, PTL DEF TtySpec, WholeShell
=============================================================================
