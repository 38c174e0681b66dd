-------------------------- MODULE RuleStoreProofs ---------------------------
(***************************************************************************)
(* Theorems about RuleStore, for any number of instances, rules, requests, *)
(* crashes and failures.                                                   *)
(***************************************************************************)
EXTENDS RuleStore, TLAPS

\* What a request may be, and what an instance may be loading.
Calls == {[pc |-> "new"]} \cup Asked
Loads == {Idle} \cup {<<r>> : r \in Rules}

(***************************************************************************)
(* Types.                                                                  *)
(***************************************************************************)

\* A request that goes one step further is still a request.
LEMMA Moved ==
    ASSUME NEW p \in Requests, NEW from \in Underway,
           NEW to \in Underway \cup {"done", "failed"},
           TypeOK, req[p].pc = from, req' = [req EXCEPT ![p].pc = to],
           to \in {"checked", "stored"} => from \in {"checked", "stored"},
           UNCHANGED phase
    PROVE  /\ req[p] \in Asked /\ req' \in [Requests -> Calls]
           /\ Serving(req[p].inst)
           /\ (\A q \in Requests : req[q].pc \in Underway => Serving(req[q].inst))'
           /\ req'[p].pc = to /\ req'[p].kind = req[p].kind
           /\ req'[p].id = req[p].id /\ req'[p].inst = req[p].inst
           /\ req'[p].sent = req[p].sent
           /\ \A q \in Requests \ {p} : req'[q] = req[q]
<1>1. req[p] \in Asked
  BY DEF TypeOK, Underway
<1>2. [req[p] EXCEPT !.pc = to] \in Asked
  BY <1>1 DEF Asked
<1>3. \A q \in Requests : req[q].pc \in Underway => Serving(req[q].inst)
  BY DEF TypeOK, DownIsIdle
<1>4. \A q \in Requests : q # p => req'[q] = req[q]
  BY DEF TypeOK
<1>5. /\ req'[p] = [req[p] EXCEPT !.pc = to] /\ req'[p].pc = to
      /\ req'[p].kind = req[p].kind /\ req'[p].id = req[p].id
      /\ req'[p].inst = req[p].inst /\ req'[p].sent = req[p].sent
  BY <1>1, <1>2 DEF TypeOK, Asked
<1> QED
  BY <1>1, <1>2, <1>3, <1>4, <1>5 DEF TypeOK, Calls, Serving

\* So is one whose message is sent.
LEMMA Sends ==
    ASSUME NEW p \in Requests, NEW to \in {"cached", "done"},
           TypeOK, Send(p, to), Deliver(Message(p)), UNCHANGED phase
    PROVE  /\ req[p] \in Asked /\ req' \in [Requests -> Calls]
           /\ Serving(req[p].inst)
           /\ (\A q \in Requests : req[q].pc \in Underway => Serving(req[q].inst))'
           /\ req'[p].pc = to /\ req'[p].sent /\ req'[p].kind = req[p].kind
           /\ req'[p].id = req[p].id /\ req'[p].inst = req[p].inst
           /\ \A q \in Requests \ {p} : req'[q] = req[q]
           /\ Message(p) \in Messages /\ inbox' \in [Instances -> Seq(Messages)]
           /\ missed' \in [Instances -> BOOLEAN]
<1>1. req[p] \in Asked /\ req[p].pc = "cached"
  BY DEF TypeOK, Send
<1>2. [req[p] EXCEPT !.pc = to, !.sent = TRUE] \in Asked
  BY <1>1 DEF Asked, Underway
<1>3. \A q \in Requests : req[q].pc \in Underway => Serving(req[q].inst)
  BY DEF TypeOK, DownIsIdle
<1>4. \A q \in Requests : q # p => req'[q] = req[q]
  BY DEF TypeOK, Send
<1>5. req'[p] = [req[p] EXCEPT !.pc = to, !.sent = TRUE]
  BY DEF TypeOK, Send
<1>6. /\ req'[p].pc = to /\ req'[p].sent /\ req'[p].kind = req[p].kind
      /\ req'[p].id = req[p].id /\ req'[p].inst = req[p].inst
  BY <1>1, <1>5 DEF Asked
<1>7. req' \in [Requests -> Calls]
  BY <1>2, <1>5 DEF TypeOK, Calls, Send
<1>8. Message(p) \in Messages
  BY <1>1 DEF Message, Messages, Asked
<1>9. inbox' \in [Instances -> Seq(Messages)] /\ missed' \in [Instances -> BOOLEAN]
  BY <1>8 DEF Deliver, TypeOK
<1>10. req[p].pc \in Underway
  BY <1>1 DEF Underway
<1> QED
  BY <1>1, <1>3, <1>4, <1>6, <1>7, <1>8, <1>9, <1>10 DEF Serving

\* Whatever a request leaves of its rule can be stored.
LEMMA WrittenType ==
    ASSUME NEW p \in Requests
    PROVE  Written(p) \in Requests \cup {Original, NoRule}
BY DEF Written

\* The start.
LEMMA InitType == Init => TypeOK
<1> SUFFICES ASSUME Init PROVE TypeOK
  OBVIOUS
<1>1. pg \in Rules /\ cache \in [Instances -> Rules]
  BY StoreAssumption DEF Init, Rules
<1>2. DownIsIdle
  BY DEF Init, DownIsIdle, Serving, Underway
<1>3. phase \in [Instances -> {"down", "loaded", "up", "cut"}]
  BY DEF Init
<1>4. inbox \in [Instances -> Seq(Messages)]
  BY DEF Init
<1> QED
  BY <1>1, <1>2, <1>3, <1>4, StoreAssumption DEF Init, TypeOK

\* The steps of a request.
LEMMA RequestType ==
    ASSUME TypeOK, NEW p \in Requests, Request(p)
    PROVE  TypeOK'
<1>1. ASSUME NEW i \in Instances, NEW id \in Ids,
             Create(p, i, id) \/ Update(p, i, id) \/ Delete(p, i, id)
      PROVE  TypeOK'
  <2>1. PICK kind \in {"create", "update", "delete"} : Begin(p, i, kind, id)
    BY <1>1 DEF Create, Update, Delete
  <2>2. req' \in [Requests -> Calls]
    BY <2>1 DEF Begin, TypeOK, Calls, Asked, Underway
  <2>3. DownIsIdle'
    BY <2>1 DEF Begin, TypeOK, DownIsIdle, Serving
  <2> QED
    BY <2>1, <2>2, <2>3 DEF Begin, TypeOK, Calls
<1>2. CASE Store(p)
  <2>1. /\ req[p] \in Asked /\ req' \in [Requests -> Calls]
        /\ Serving(req[p].inst)
        /\ (\A q \in Requests : req[q].pc \in Underway => Serving(req[q].inst))'
    BY <1>2, Moved DEF Store, Step, Underway
  <2>2. pg' \in Rules
    BY <1>2, <2>1, WrittenType DEF Store, TypeOK, Rules, Asked
  <2>9. DownIsIdle'
    BY <1>2, <2>1 DEF Store, TypeOK, DownIsIdle, Serving
  <2> QED
    BY <1>2, <2>1, <2>2, <2>9 DEF Store, TypeOK, Calls
<1>3. CASE Cache(p)
  <2>1. /\ req[p] \in Asked /\ req' \in [Requests -> Calls]
        /\ Serving(req[p].inst)
        /\ (\A q \in Requests : req[q].pc \in Underway => Serving(req[q].inst))'
    BY <1>3, Moved DEF Cache, Step, Underway
  <2>2. cache' \in [Instances -> Rules]
    BY <1>3, <2>1, WrittenType DEF Cache, TypeOK, Rules, Asked
  <2>9. DownIsIdle'
    BY <1>3, <2>1 DEF Cache, TypeOK, DownIsIdle, Serving
  <2> QED
    BY <1>3, <2>1, <2>2, <2>9 DEF Cache, TypeOK, Calls
<1>4. CASE Publish(p) \/ PublishAgain(p)
  <2>1. PICK to \in {"cached", "done"} :
            /\ Send(p, to) /\ Deliver(Message(p)) /\ UNCHANGED <<pg, cache, phase, load, crashes>>
    BY <1>4 DEF Publish, PublishAgain
  <2>2. /\ req' \in [Requests -> Calls]
        /\ (\A q \in Requests : req[q].pc \in Underway => Serving(req[q].inst))'
        /\ inbox' \in [Instances -> Seq(Messages)] /\ missed' \in [Instances -> BOOLEAN]
    BY <2>1, Sends
  <2>3. failures' \in 0 .. MaxFailures
    BY <1>4, StoreAssumption DEF Publish, PublishAgain, TypeOK
  <2>9. DownIsIdle'
    BY <2>1, <2>2 DEF Deliver, TypeOK, DownIsIdle, Serving
  <2> QED
    BY <2>1, <2>2, <2>3, <2>9 DEF TypeOK, Calls
<1>5. CASE Fail(p)
  <2>1. /\ req[p] \in Asked /\ req' \in [Requests -> Calls]
        /\ Serving(req[p].inst)
        /\ (\A q \in Requests : req[q].pc \in Underway => Serving(req[q].inst))'
    BY <1>5, Moved DEF Fail, Underway
  <2>9. DownIsIdle'
    BY <1>5, <2>1 DEF Fail, TypeOK, DownIsIdle, Serving
  <2> QED
    BY <1>5, <2>1, StoreAssumption, <2>9 DEF Fail, TypeOK, Calls
<1> QED
  BY <1>1, <1>2, <1>3, <1>4, <1>5 DEF Request

\* What Drop leaves of a queue of messages: some of them, in their order.
Dropped(s) == SubSeq(s, 1, ChannelSize) \o SubSeq(s, ChannelSize + 2, Len(s))
LEMMA DroppedLeaves ==
    ASSUME NEW s \in Seq(Messages), Len(s) > ChannelSize
    PROVE  /\ Dropped(s) \in Seq(Messages)
           /\ \A n \in DOMAIN Dropped(s) : \E m \in DOMAIN s : Dropped(s)[n] = s[m]
<1> DEFINE a == SubSeq(s, 1, ChannelSize)
           b == SubSeq(s, ChannelSize + 2, Len(s))
<1>1. ChannelSize \in Nat /\ Len(s) \in Nat
  BY StoreAssumption
<1>2. /\ a \in Seq(Messages) /\ Len(a) = ChannelSize
      /\ \A n \in 1 .. ChannelSize : a[n] = s[n]
  <2>1. a = [n \in 1 .. ChannelSize |-> s[n]]
    BY <1>1
  <2>2. \A n \in 1 .. ChannelSize : s[n] \in Messages
    BY <1>1
  <2> HIDE DEF a
  <2> QED
    BY <1>1, <2>1, <2>2
<1>3. /\ b \in Seq(Messages) /\ Len(b) = Len(s) - (ChannelSize + 1)
      /\ \A n \in 1 .. Len(s) - (ChannelSize + 1) : b[n] = s[n + ChannelSize + 1]
  <2> DEFINE k == Len(s) - (ChannelSize + 1)
  <2>0. k \in Nat /\ k + ChannelSize + 1 = Len(s)
    BY <1>1
  <2>1. b = [n \in 1 .. k |-> s[n + ChannelSize + 1]]
    BY <1>1
  <2>2. \A n \in 1 .. k : s[n + ChannelSize + 1] \in Messages
    BY <1>1, <2>0
  <2> HIDE DEF b, k
  <2>3. b \in Seq(Messages) /\ Len(b) = k /\ \A n \in 1 .. k : b[n] = s[n + ChannelSize + 1]
    BY <2>0, <2>1, <2>2
  <2> QED
    BY <2>3 DEF k
<1> HIDE DEF a, b
<1>4. /\ a \o b \in Seq(Messages) /\ Len(a \o b) = Len(a) + Len(b)
      /\ \A n \in 1 .. Len(a) : (a \o b)[n] = a[n]
      /\ \A n \in Len(a) + 1 .. Len(a) + Len(b) : (a \o b)[n] = b[n - Len(a)]
  <2>1. a \in Seq(Messages) /\ b \in Seq(Messages)
    BY <1>2, <1>3
  <2>2. a \o b \in Seq(Messages) /\ Len(a \o b) = Len(a) + Len(b)
    BY <2>1
  <2>3. \A n \in 1 .. Len(a) : (a \o b)[n] = a[n]
    BY <2>1
  <2>4. \A n \in Len(a) + 1 .. Len(a) + Len(b) : (a \o b)[n] = b[n - Len(a)]
    BY <2>1
  <2> QED
    BY <2>2, <2>3, <2>4
<1>5. ASSUME NEW n \in DOMAIN (a \o b) PROVE \E m \in DOMAIN s : (a \o b)[n] = s[m]
  <2>1. CASE n <= ChannelSize
    <3>1. n \in 1 .. ChannelSize /\ n \in DOMAIN s
      BY <1>1, <1>2, <1>3, <1>4, <2>1
    <3> QED
      BY <3>1, <1>2, <1>4
  <2>2. CASE n > ChannelSize
    <3>1. /\ n \in ChannelSize + 1 .. Len(s) - 1 /\ n - ChannelSize \in 1 .. Len(b)
          /\ n + 1 \in DOMAIN s /\ (n - ChannelSize) + ChannelSize + 1 = n + 1
      BY <1>1, <1>2, <1>3, <1>4, <2>2
    <3>2. (a \o b)[n] = b[n - ChannelSize]
      BY <1>1, <1>2, <1>3, <1>4, <3>1
    <3>3. b[n - ChannelSize] = s[n + 1]
      BY <1>3, <3>1
    <3> QED
      BY <3>1, <3>2, <3>3
  <2> QED
    BY <1>1, <1>4, <2>1, <2>2
<1> QED
  BY <1>4, <1>5 DEF a, b, Dropped

\* The steps of an instance.
LEMMA InstanceType ==
    ASSUME TypeOK, NEW i \in Instances, Instance(i)
    PROVE  TypeOK'
<1>1. CASE HandleDelete(i)
  <2>1. inbox' \in [Instances -> Seq(Messages)] /\ Head(inbox[i]) \in Messages
    BY <1>1 DEF HandleDelete, Received, TypeOK
  <2>2. Head(inbox[i]).id \in Ids
    BY <1>1, <2>1 DEF HandleDelete, Received, Messages, Reload, Deletion
  <2>3. cache' \in [Instances -> Rules]
    BY <1>1, <2>2 DEF HandleDelete, TypeOK, Rules
  <2>4. Serving(i)
    BY <1>1 DEF HandleDelete, Received, TypeOK, DownIsIdle
  <2>9. DownIsIdle'
    BY <1>1, <2>4 DEF HandleDelete, TypeOK, DownIsIdle, Serving
  <2> QED
    BY <1>1, <2>1, <2>3, <2>9 DEF HandleDelete, TypeOK
<1>2. CASE Query(i)
  <2>1. inbox' \in [Instances -> Seq(Messages)]
    BY <1>2 DEF Query, Received, TypeOK
  <2>2. load' \in [Instances -> Loads]
    BY <1>2 DEF Query, TypeOK, Loads
  <2>3. Serving(i)
    BY <1>2 DEF Query, Received, TypeOK, DownIsIdle
  <2>9. DownIsIdle'
    BY <1>2, <2>3 DEF Query, TypeOK, DownIsIdle, Serving
  <2> QED
    BY <1>2, <2>1, <2>2, <2>9 DEF Query, TypeOK, Loads
<1>3. CASE Swap(i)
  <2>1. load[i] \in {<<r>> : r \in Rules} /\ load[i][1] \in Rules
    BY <1>3 DEF TypeOK, Swap
  <2>2. load' \in [Instances -> Loads]
    BY <1>3 DEF TypeOK, Swap, Loads
  <2>3. cache' \in [Instances -> Rules]
    BY <1>3, <2>1 DEF TypeOK, Swap
  <2>4. Serving(i)
    BY <1>3 DEF Swap, TypeOK, DownIsIdle
  <2>9. DownIsIdle'
    BY <1>3, <2>4 DEF Swap, TypeOK, DownIsIdle, Serving
  <2> QED
    BY <1>3, <2>2, <2>3, <2>9 DEF Swap, TypeOK, Loads
<1>4. CASE QueryFails(i)
  <2>1. inbox' \in [Instances -> Seq(Messages)] /\ Serving(i)
    BY <1>4 DEF QueryFails, Received, TypeOK, DownIsIdle
  <2>9. DownIsIdle'
    BY <1>4, <2>1 DEF QueryFails, TypeOK, DownIsIdle, Serving
  <2> QED
    BY <1>4, <2>1, StoreAssumption, <2>9 DEF QueryFails, TypeOK
<1>10. CASE Drop(i)
  <2>1. inbox' \in [Instances -> Seq(Messages)] /\ Serving(i)
    <3>1. inbox[i] \in Seq(Messages) /\ Len(inbox[i]) > ChannelSize
      BY <1>10 DEF Drop, TypeOK
    <3>2. /\ Dropped(inbox[i]) \in Seq(Messages) /\ inbox[i] # <<>>
          /\ inbox' = [inbox EXCEPT ![i] = Dropped(inbox[i])]
      BY <1>10, <3>1, DroppedLeaves, StoreAssumption DEF Drop, Dropped
    <3> QED
      BY <3>2 DEF TypeOK, DownIsIdle
  <2>9. DownIsIdle'
    BY <1>10, <2>1 DEF Drop, TypeOK, DownIsIdle, Serving
  <2> QED
    BY <1>10, <2>1, StoreAssumption, <2>9 DEF Drop, TypeOK
<1>5. CASE Cut(i)
  <2>1. DownIsIdle'
    BY <1>5 DEF Cut, TypeOK, DownIsIdle, Serving
  <2> QED
    BY <1>5, StoreAssumption, <2>1 DEF Cut, TypeOK
<1>6. CASE Reconnect(i)
  <2>1. DownIsIdle'
    BY <1>6 DEF Reconnect, TypeOK, DownIsIdle, Serving
  <2> QED
    BY <1>6, <2>1 DEF Reconnect, TypeOK
<1>7. CASE Start(i)
  <2>1. cache' \in [Instances -> Rules]
    BY <1>7 DEF Start, TypeOK
  <2>9. DownIsIdle'
    BY <1>7 DEF Start, TypeOK, DownIsIdle, Serving
  <2> QED
    BY <1>7, <2>1, <2>9 DEF Start, TypeOK
<1>8. CASE Subscribe(i)
  <2>1. DownIsIdle'
    BY <1>8 DEF Subscribe, TypeOK, DownIsIdle, Serving
  <2> QED
    BY <1>8, <2>1 DEF Subscribe, TypeOK
<1>9. CASE Crash(i)
  <2>8. \A p \in Requests : req'[p] = req[p] \/ req'[p].pc = "failed"
    <3> SUFFICES ASSUME NEW p \in Requests, req'[p] # req[p]
                 PROVE  req'[p].pc = "failed"
      OBVIOUS
    <3>1. req[p] \in Asked /\ req'[p] = [req[p] EXCEPT !.pc = "failed"]
      BY <1>9 DEF Crash, TypeOK, Underway
    <3> QED
      BY <3>1 DEF Asked
  <2>1. req' \in [Requests -> Calls]
    <3> SUFFICES ASSUME NEW p \in Requests, req'[p] # req[p]
                 PROVE  req'[p] \in Asked
      BY <1>9 DEF Crash, TypeOK, Calls
    <3>1. req[p] \in Asked /\ req'[p] = [req[p] EXCEPT !.pc = "failed"]
      BY <1>9 DEF Crash, TypeOK, Underway
    <3> QED
      BY <3>1 DEF Asked
  <2>2. cache' \in [Instances -> Rules]
    BY <1>9 DEF Crash, TypeOK, Rules
  <2>3. inbox' \in [Instances -> Seq(Messages)] /\ load' \in [Instances -> Loads]
    BY <1>9 DEF Crash, TypeOK, Loads
  <2>4. missed' \in [Instances -> BOOLEAN]
    BY <1>9, Zenon DEF Crash, TypeOK
  <2>5. phase' \in [Instances -> {"down", "loaded", "up", "cut"}]
    BY <1>9 DEF Crash, TypeOK
  <2>6. crashes' \in 0 .. MaxCrashes
    BY <1>9, StoreAssumption DEF Crash, TypeOK
  <2>7. DownIsIdle'
    <3>1. \A j \in Instances : ~Serving(j)' => /\ inbox'[j] = <<>> /\ load'[j] = Idle
                                               /\ cache'[j] = [id \in Ids |-> NoRule]
      BY <1>9 DEF Crash, TypeOK, DownIsIdle, Serving
    <3>2. ASSUME NEW p \in Requests, req'[p].pc \in Underway
          PROVE  Serving(req[p].inst)' /\ req'[p] = req[p]
      <4>1. req'[p] = req[p]
        BY <3>2, <1>9, <2>8 DEF Crash, TypeOK, Underway
      <4>2. req[p].inst # i /\ req[p].inst \in Instances /\ Serving(req[p].inst)
        BY <3>2, <4>1, <1>9 DEF Crash, TypeOK, DownIsIdle, Underway, Asked
      <4> QED
        BY <4>1, <4>2, <1>9 DEF Crash, Serving, TypeOK
    <3> QED
      BY <3>1, <3>2 DEF DownIsIdle
  <2> QED
    BY <1>9, <2>1, <2>2, <2>3, <2>4, <2>5, <2>6, <2>7 DEF Crash, TypeOK, Calls, Loads
<1> QED
  BY <1>1, <1>2, <1>3, <1>4, <1>5, <1>6, <1>7, <1>8, <1>9, <1>10 DEF Instance, Handle

\* Every variable of RuleStore has its type, for every value of the constants.
THEOREM RuleStoreType == Spec => []TypeOK
<1>1. TypeOK /\ [Next]_vars => TypeOK'
  <2> SUFFICES ASSUME TypeOK, [Next]_vars PROVE TypeOK'
    OBVIOUS
  <2>1. CASE Next
    BY <2>1, RequestType, InstanceType DEF Next
  <2>2. CASE UNCHANGED vars
    BY <2>2 DEF vars, TypeOK, DownIsIdle, Serving
  <2> QED
    BY <2>1, <2>2
<1> QED
  BY InitType, <1>1, PTL DEF Spec

(***************************************************************************)
(* What is in force is stored.                                             *)
(***************************************************************************)

\* The requests that have stored what they write, and the rules they leave.
StoredRules ==
    {Original, NoRule} \cup {p \in Requests : req[p].pc \notin {"new", "checked"}}

\* Every place a rule can come into force from holds such rules only.
StoredEverywhere ==
    /\ pg \in [Ids -> StoredRules]
    /\ cache \in [Instances -> [Ids -> StoredRules]]
    /\ \A i \in Instances : load[i] # Idle => load[i][1] \in [Ids -> StoredRules]

\* What was stored stays stored.
LEMMA StoredForGood ==
    ASSUME TypeOK, [Next]_vars, NEW p \in Requests, req[p].pc \notin {"new", "checked"}
    PROVE  req'[p].pc \notin {"new", "checked"}
<1>1. CASE UNCHANGED vars
  BY <1>1 DEF vars
<1>2. ASSUME NEW q \in Requests, Request(q) PROVE req'[p].pc \notin {"new", "checked"}
  <2>1. ASSUME NEW from \in {"checked", "stored", "cached"}, NEW to \in {"stored", "cached", "done"},
               Step(q, from, to)
        PROVE  req'[p].pc \notin {"new", "checked"}
    BY <2>1 DEF Step, TypeOK, Asked
  <2>2. ASSUME NEW i \in Instances, NEW id \in Ids, NEW kind, Begin(q, i, kind, id)
        PROVE  req'[p].pc \notin {"new", "checked"}
    BY <2>2 DEF Begin, TypeOK
  <2>3. CASE Fail(q)
    BY <2>3 DEF Fail, TypeOK, Asked, Underway
  <2>4. ASSUME NEW to \in {"cached", "done"}, Send(q, to)
        PROVE  req'[p].pc \notin {"new", "checked"}
    BY <2>4 DEF Send, TypeOK, Asked
  <2> QED
    BY <1>2, <2>1, <2>2, <2>3, <2>4
    DEF Request, Create, Update, Delete, Store, Cache, Publish, PublishAgain
<1>3. ASSUME NEW i \in Instances, Instance(i) PROVE req'[p].pc \notin {"new", "checked"}
  <2>1. CASE Crash(i)
    BY <2>1 DEF Crash, TypeOK, Asked, Underway
  <2> QED
    BY <1>3, <2>1 DEF Instance, Handle, HandleDelete, Query, Swap, QueryFails, Drop, Cut,
                      Reconnect, Start, Subscribe
<1> QED
  BY <1>1, <1>2, <1>3 DEF Next

\* And so do the rules it left.
LEMMA StoredRulesGrow ==
    ASSUME TypeOK, [Next]_vars
    PROVE  StoredRules \subseteq StoredRules'
BY StoredForGood DEF StoredRules

\* So that a variable that is left alone goes on holding stored rules.
LEMMA StoredStays ==
    ASSUME TypeOK, [Next]_vars, StoredEverywhere
    PROVE  /\ pg \in [Ids -> StoredRules']
           /\ cache \in [Instances -> [Ids -> StoredRules']]
           /\ \A i \in Instances : load[i] # Idle => load[i][1] \in [Ids -> StoredRules']
<1>1. StoredRules \subseteq StoredRules'
  BY StoredRulesGrow
<1>2. ASSUME NEW r \in [Ids -> StoredRules] PROVE r \in [Ids -> StoredRules']
  BY <1>1
<1> QED
  BY <1>2 DEF StoredEverywhere

\* Each way a rule gets into a copy is from PostgreSQL, or after it was written there.
LEMMA StoredEverywhereStep ==
    ASSUME TypeOK, StoredEverywhere, [Next]_vars
    PROVE  StoredEverywhere'
<1>1. CASE UNCHANGED <<pg, cache, load>>
  BY <1>1, StoredStays DEF StoredEverywhere
<1>2. ASSUME NEW p \in Requests, Store(p) PROVE StoredEverywhere'
  <2>1. req'[p].pc = "stored"
    BY <1>2, Moved DEF Store, Step, Underway
  <2>2. Written(p) \in StoredRules'
    BY <2>1 DEF Written, StoredRules
  <2> QED
    BY <1>2, <2>2, StoredStays DEF Store, StoredEverywhere
<1>3. ASSUME NEW p \in Requests, Cache(p) PROVE StoredEverywhere'
  <2>1. req'[p].pc = "cached"
    BY <1>3, Moved DEF Cache, Step, Underway
  <2>2. Written(p) \in StoredRules'
    BY <2>1 DEF Written, StoredRules
  <2> QED
    BY <1>3, <2>2, StoredStays DEF Cache, StoredEverywhere
<1>4. ASSUME NEW i \in Instances, HandleDelete(i) PROVE StoredEverywhere'
  <2>1. NoRule \in StoredRules'
    BY DEF StoredRules
  <2> QED
    BY <1>4, <2>1, StoredStays DEF HandleDelete, StoredEverywhere
<1>5. ASSUME NEW i \in Instances, Query(i) PROVE StoredEverywhere'
  BY <1>5, StoredStays DEF Query, StoredEverywhere, TypeOK, Idle
<1>6. ASSUME NEW i \in Instances, Swap(i) PROVE StoredEverywhere'
  BY <1>6, StoredStays DEF Swap, StoredEverywhere, TypeOK
<1>7. ASSUME NEW i \in Instances, Start(i) PROVE StoredEverywhere'
  BY <1>7, StoredStays DEF Start, StoredEverywhere
<1>8. ASSUME NEW i \in Instances, Crash(i) PROVE StoredEverywhere'
  <2>1. NoRule \in StoredRules'
    BY DEF StoredRules
  <2> QED
    BY <1>8, <2>1, StoredStays DEF Crash, StoredEverywhere, TypeOK
<1> QED
  BY <1>1, <1>2, <1>3, <1>4, <1>5, <1>6, <1>7, <1>8
  DEF Next, vars, Request, Create, Update, Delete, Begin, Publish, PublishAgain, Fail, Instance, Handle,
      QueryFails, Drop, Cut, Reconnect, Subscribe

\* No instance enforces a rule that a restart would take back: what is in a copy
\* was stored, by whichever instance, and whatever crashed since.
THEOREM RuleStoreDurable == Spec => []DurableBeforeInForce
<1>1. Init => StoredEverywhere
  BY DEF Init, StoredEverywhere, StoredRules
<1>2. TypeOK /\ StoredEverywhere /\ [Next]_vars => StoredEverywhere'
  BY StoredEverywhereStep
<1>3. TypeOK /\ StoredEverywhere => DurableBeforeInForce
  BY StoreAssumption DEF StoredEverywhere, StoredRules, DurableBeforeInForce
<1> QED
  BY RuleStoreType, <1>1, <1>2, <1>3, PTL DEF Spec

-----------------------------------------------------------------------------
(***************************************************************************)
(* The copies settle on what is stored.  Settled says it of one rule on    *)
(* one instance.  A step disturbs it in three ways, and each is made good: *)
(* a write to PostgreSQL leaves a change that is Open; the message of a    *)
(* change, or the reload it calls for, brings the rule from PostgreSQL     *)
(* (ReloadAgrees); and a message that deletes is of a delete that was sent *)
(* (Announced), after which the rule is gone or Overtaken.                 *)
(***************************************************************************)

\* What SettlesOnStored asks of one instance and one rule.
Settled(i, id) ==
    Serving(i) /\ ~missed[i] => Agrees(id, Outcome(i, id)) \/ Open(id)

\* A delete message is of a delete that was sent.
Announced ==
    \A i \in Instances : \A n \in DOMAIN inbox[i] : \A id \in Ids :
        inbox[i][n] = Deletion(id) => Deleted(id)

\* What was announced stays so.
LEMMA SentStays ==
    ASSUME TypeOK, [Next]_vars, NEW p \in Requests, req[p].pc # "new", req[p].sent
    PROVE  req'[p].pc # "new" /\ req'[p].sent /\ req'[p].kind = req[p].kind /\ req'[p].id = req[p].id
<1> DEFINE Stays == /\ req'[p].pc # "new" /\ req'[p].sent
                    /\ req'[p].kind = req[p].kind /\ req'[p].id = req[p].id
<1>0. req[p] \in Asked /\ req \in [Requests -> Calls]
  BY DEF TypeOK, Calls
<1>1. CASE req'[p] = req[p]
  BY <1>1
<1>2. ASSUME NEW to \in Underway \cup {"done", "failed"}, req'[p] = [req[p] EXCEPT !.pc = to]
      PROVE  Stays
  BY <1>0, <1>2 DEF Asked, Underway
<1>3. ASSUME NEW q \in Requests, NEW from, NEW to \in Underway \cup {"done", "failed"},
             Step(q, from, to)
      PROVE  Stays
  <2>1. req'[p] = req[p] \/ req'[p] = [req[p] EXCEPT !.pc = to]
    BY <1>0, <1>3 DEF Step
  <2> QED
    BY <1>1, <1>2, <2>1
<1>4. ASSUME NEW q \in Requests, NEW to \in {"cached", "done"}, Send(q, to)
      PROVE  Stays
  <2>1. req'[p] = req[p] \/ req'[p] = [req[p] EXCEPT !.pc = to, !.sent = TRUE]
    BY <1>0, <1>4 DEF Send
  <2> QED
    BY <1>0, <2>1 DEF Asked
<1>5. ASSUME NEW q \in Requests, NEW i \in Instances, NEW id \in Ids, NEW kind,
             Begin(q, i, kind, id)
      PROVE  Stays
  <2>1. req'[p] = req[p]
    BY <1>0, <1>5 DEF Begin
  <2> QED
    BY <2>1
<1>6. ASSUME NEW q \in Requests, Fail(q) PROVE Stays
  <2>1. req'[p] = req[p] \/ req'[p] = [req[p] EXCEPT !.pc = "failed"]
    BY <1>0, <1>6 DEF Fail
  <2> QED
    BY <1>1, <1>2, <2>1
<1>7. ASSUME NEW i \in Instances, Crash(i) PROVE Stays
  <2>1. req'[p] = req[p] \/ req'[p] = [req[p] EXCEPT !.pc = "failed"]
    BY <1>7 DEF Crash
  <2> QED
    BY <1>1, <1>2, <2>1
<1>8. CASE UNCHANGED req
  BY <1>1, <1>8
<1>9. Stays
  <2>1. ASSUME NEW q \in Requests, Request(q) PROVE Stays
    <3>1. CASE Store(q) \/ Cache(q)
      BY <1>3, <3>1 DEF Store, Cache, Underway
    <3>2. CASE Publish(q) \/ PublishAgain(q)
      BY <1>4, <3>2 DEF Publish, PublishAgain
    <3> QED
      BY <2>1, <3>1, <3>2, <1>5, <1>6 DEF Request, Create, Update, Delete
  <2>2. ASSUME NEW i \in Instances, Instance(i) PROVE Stays
    BY <2>2, <1>7, <1>8
    DEF Instance, Handle, HandleDelete, Query, Swap, QueryFails, Drop, Cut, Reconnect, Start,
        Subscribe
  <2> QED
    BY <2>1, <2>2, <1>8 DEF Next, vars
<1> QED
  BY <1>9 DEF Stays

\* A delete that was announced stays so.
LEMMA DeletedStays ==
    ASSUME TypeOK, [Next]_vars, NEW id \in Ids, Deleted(id)
    PROVE  Deleted(id)'
BY SentStays DEF Deleted

\* An instance may be without a rule whose delete was announced.
LEMMA DeletedAgrees ==
    ASSUME NEW id \in Ids, Deleted(id)
    PROVE  Agrees(id, NoRule)
BY DEF Agrees, Overtaken

\* The same after a step.
LEMMA DeletedAgreesNext ==
    (\A id \in Ids : Deleted(id) => Agrees(id, NoRule))'
<1>1. \A id \in Ids : Deleted(id) => Agrees(id, NoRule)
  BY DeletedAgrees
<1> QED
  BY <1>1, PTL

\* A step that touches neither the rule nor what the instance will hold.
LEMMA SettledStays ==
    ASSUME TypeOK, [Next]_vars, NEW i \in Instances, NEW id \in Ids, Settled(i, id),
           Serving(i)' => Serving(i), missed[i] => missed'[i],
           Outcome(i, id)' = Outcome(i, id), pg'[id] = pg[id], Open(id) => Open(id)'
    PROVE  Settled(i, id)'
BY DeletedStays DEF Settled, Agrees, Overtaken

\* Deletions of different rules, and reloads, are different messages.
LEMMA MessagesDiffer ==
    /\ \A id \in Ids : Deletion(id) # Reload
    /\ \A id, d \in Ids : Deletion(id) = Deletion(d) => id = d
<1>1. \A id \in Ids : Deletion(id).type = "delete" /\ Deletion(id).id = id
  BY DEF Deletion
<1>2. Reload.type = "reload"
  BY DEF Reload
<1> QED
  BY <1>1, <1>2

\* Handling a delete message changes no outcome.
LEMMA HandledOutcome ==
    ASSUME TypeOK, NEW i \in Instances, NEW id \in Ids, HandleDelete(i)
    PROVE  Outcome(i, id)' = Outcome(i, id)
<1> DEFINE s == inbox[i]
<1>1. /\ s \in Seq(Messages) /\ s # <<>> /\ load[i] = Idle
      /\ Len(s) \in Nat \ {0}
      /\ inbox'[i] = Tail(s) /\ pg' = pg /\ load' = load
  BY DEF HandleDelete, Received, TypeOK
<1>2. PICK d \in Ids : s[1] = Deletion(d)
  BY <1>1 DEF HandleDelete, Received, Messages, Reload, Deletion
<1>3. cache'[i][id] = IF id = d THEN NoRule ELSE cache[i][id]
  BY <1>1, <1>2 DEF HandleDelete, TypeOK, Rules, Deletion
<1> DEFINE D == Positions(i, Deletion(id))
           R == Positions(i, Reload)
           Last(X, Y) == \E n \in X : \A m \in Y : m < n
<1>4. /\ D \subseteq 1 .. Len(s) /\ R \subseteq 1 .. Len(s)
      /\ 1 \in D <=> id = d
      /\ 1 \notin R
  BY <1>1, <1>2, MessagesDiffer DEF Positions
<1>5. /\ D' = {n \in 1 .. Len(s) - 1 : n + 1 \in D}
      /\ R' = {n \in 1 .. Len(s) - 1 : n + 1 \in R}
  BY <1>1 DEF Positions, Deletion, Reload
<1> HIDE DEF D, R
<1>6. R' = {} <=> R = {}
  <2>1. \A m \in R : m - 1 \in R'
    BY <1>1, <1>4, <1>5
  <2> QED
    BY <2>1, <1>5
<1>7. Last(D', R') => Last(D, R)
  <2> SUFFICES ASSUME NEW n \in D', \A m \in R' : m < n PROVE \A m \in R : m < n + 1
    BY <1>5
  <2> QED
    BY <1>1, <1>4, <1>5
<1>8. Last(D, R) => Last(D', R') \/ (R = {} /\ id = d)
  <2> SUFFICES ASSUME NEW n \in D, \A m \in R : m < n, ~(R = {} /\ id = d)
               PROVE  n - 1 \in D' /\ \A m \in R' : m < n - 1
    OBVIOUS
  <2>1. n # 1
    BY <1>4
  <2> QED
    BY <2>1, <1>1, <1>4, <1>5
<1>9. R = {} /\ ~Last(D, R) => id # d
  BY <1>4
<1>10. Outcome(i, id) = IF Last(D, R) THEN NoRule
                        ELSE IF R # {} THEN pg[id] ELSE cache[i][id]
  BY <1>1, Zenon DEF Outcome, D, R
<1>11. Outcome(i, id)' = IF Last(D', R') THEN NoRule
                         ELSE IF R' # {} THEN pg[id] ELSE cache'[i][id]
  BY <1>1, Zenon DEF Outcome, D, R
<1> QED
  BY <1>3, <1>6, <1>7, <1>8, <1>9, <1>10, <1>11

\* The instance has a reload to do, or has read what is stored and is to take it over.
Reloading(i) == Positions(i, Reload) # {} \/ load[i] = <<pg>>
\* Only a delete that was sent can take the rule away again.
LEMMA ReloadAgrees ==
    Announced =>
        \A i \in Instances, id \in Ids : Reloading(i) => Agrees(id, Outcome(i, id))
<1> SUFFICES ASSUME Announced, NEW i \in Instances, NEW id \in Ids, Reloading(i)
             PROVE  Agrees(id, Outcome(i, id))
  OBVIOUS
<1>1. CASE \E n \in Positions(i, Deletion(id)) : \A m \in Positions(i, Reload) : m < n
  <2>1. Deleted(id)
    BY <1>1 DEF Announced, Positions
  <2> QED
    BY <1>1, <2>1, DeletedAgrees, Zenon DEF Outcome
<1>2. CASE ~\E n \in Positions(i, Deletion(id)) : \A m \in Positions(i, Reload) : m < n
  <2>1. CASE Positions(i, Reload) # {}
    BY <1>2, <2>1, Zenon DEF Outcome, Agrees
  <2>2. CASE Positions(i, Reload) = {} /\ load[i] = <<pg>>
    <3>1. load[i] # Idle /\ load[i][1] = pg
      BY <2>2 DEF Idle
    <3> QED
      BY <1>2, <2>2, <3>1, Zenon DEF Outcome, Agrees
  <2> QED
    BY <2>1, <2>2 DEF Reloading
<1> QED
  BY <1>1, <1>2

\* The same after a step.
LEMMA ReloadAgreesNext ==
    (Announced =>
        \A i \in Instances, id \in Ids : Reloading(i) => Agrees(id, Outcome(i, id)))'
BY ReloadAgrees, PTL

\* A delete message is sent for a delete.
LEMMA AnnouncedStep ==
    ASSUME TypeOK, Announced, [Next]_vars
    PROVE  Announced'
<1>1. ASSUME \A i \in Instances : \A n \in DOMAIN inbox'[i] : \A id \in Ids :
                 inbox'[i][n] = Deletion(id) =>
                     Deleted(id)' \/ \E m \in DOMAIN inbox[i] : inbox[i][m] = Deletion(id)
      PROVE  Announced'
  BY <1>1, DeletedStays DEF Announced, Deletion
<1>2. CASE UNCHANGED inbox
  BY <1>2, <1>1
<1>3. ASSUME NEW j \in Instances, inbox[j] # <<>>, inbox' = [inbox EXCEPT ![j] = Tail(@)]
      PROVE  Announced'
  <2>1. inbox \in [Instances -> Seq(Messages)]
    BY DEF TypeOK
  <2>2. \A n \in DOMAIN inbox'[j] : /\ n + 1 \in DOMAIN inbox[j]
                                    /\ inbox'[j][n] = inbox[j][n + 1]
    BY <1>3, <2>1
  <2>3. \A i \in Instances \ {j} : inbox'[i] = inbox[i]
    BY <1>3, <2>1
  <2> QED
    BY <1>1, <2>2, <2>3
<1>4. ASSUME NEW p \in Requests, Publish(p) \/ PublishAgain(p) PROVE Announced'
  <2> DEFINE msg == Message(p)
  <2>1. inbox \in [Instances -> Seq(Messages)]
    BY DEF TypeOK
  <2>2. /\ Deliver(msg) /\ msg \in Messages /\ req[p] \in Asked /\ req'[p].pc # "new"
        /\ req'[p].sent /\ req'[p].kind = req[p].kind /\ req'[p].id = req[p].id
    BY <1>4, Sends DEF Publish, PublishAgain
  <2>4. ASSUME NEW id \in Ids, msg = Deletion(id) PROVE Deleted(id)'
    <3>1. req[p].kind = "delete" /\ req[p].id = id
      BY <2>2, <2>4, MessagesDiffer DEF Asked, Message
    <3> QED
      BY <3>1, <2>2 DEF Deleted
  <2> HIDE DEF msg
  <2>5. ASSUME NEW i \in Instances, NEW n \in DOMAIN inbox'[i], inbox'[i][n] # msg
        PROVE  n \in DOMAIN inbox[i] /\ inbox'[i][n] = inbox[i][n]
    <3>1. inbox'[i] = Append(inbox[i], msg) \/ inbox'[i] = inbox[i]
      BY <2>2 DEF Deliver
    <3>2. inbox[i] \in Seq(Messages)
      BY <2>1
    <3>3. CASE inbox'[i] = Append(inbox[i], msg)
      BY <3>2, <3>3, <2>2, <2>5
    <3> QED
      BY <3>1, <3>3, <2>5
  <2> QED
    BY <1>1, <2>4, <2>5
<1>6. ASSUME NEW j \in Instances, Drop(j) PROVE Announced'
  <2>1. inbox[j] \in Seq(Messages) /\ Len(inbox[j]) > ChannelSize
    BY <1>6 DEF Drop, TypeOK
  <2>2. /\ inbox'[j] = Dropped(inbox[j])
        /\ \A i \in Instances \ {j} : inbox'[i] = inbox[i]
    BY <1>6 DEF Drop, TypeOK, Dropped
  <2>3. \A n \in DOMAIN inbox'[j] : \E m \in DOMAIN inbox[j] : inbox'[j][n] = inbox[j][m]
    BY <2>1, <2>2, DroppedLeaves
  <2> QED
    BY <1>1, <2>2, <2>3
<1>5. ASSUME NEW j \in Instances, Crash(j) PROVE Announced'
  <2>1. \A i \in Instances : inbox'[i] = <<>> \/ inbox'[i] = inbox[i]
    BY <1>5 DEF Crash, TypeOK
  <2> QED
    BY <1>1, <2>1
<1> QED
  BY <1>2, <1>3, <1>4, <1>5, <1>6
  DEF Next, vars, Request, Create, Update, Delete, Begin, Store, Cache, Fail, Instance, Handle,
      HandleDelete, Query, Swap, QueryFails, Received, Cut, Reconnect, Start, Subscribe

\* No step of a request or of an instance leaves a copy with an old rule for good.
LEMMA SettledStep ==
    ASSUME TypeOK, TypeOK', Announced, Announced', [Next]_vars,
           NEW i \in Instances, NEW id \in Ids, Settled(i, id)
    PROVE  Settled(i, id)'
<1>1. CASE UNCHANGED vars
  BY <1>1, SettledStays DEF vars, Serving, Outcome, Positions, Open, Changed
<1>2. ASSUME NEW p \in Requests, Request(p) PROVE Settled(i, id)'
  <2>1. ASSUME NEW j \in Instances, NEW d \in Ids, NEW kind, Begin(p, j, kind, d)
        PROVE  Settled(i, id)'
    <3>1. Open(id) => Open(id)'
      BY <2>1 DEF Begin, TypeOK, Open, Changed
    <3>2. Outcome(i, id)' = Outcome(i, id)
      BY <2>1 DEF Begin, Outcome, Positions
    <3> QED
      BY <2>1, <3>1, <3>2, SettledStays DEF Begin, Serving
  <2>2. ASSUME Changed(p)', req'[p].id = req[p].id, req[p].pc \in Underway,
               \A q \in Requests \ {p} : req'[q] = req[q],
               UNCHANGED <<phase, inbox, load, missed>>,
               id # req[p].id => pg'[id] = pg[id] /\ cache'[i][id] = cache[i][id]
        PROVE  Settled(i, id)'
    <3>1. CASE id = req[p].id
      BY <2>2, <3>1 DEF Settled, Open
    <3>2. CASE id # req[p].id
      <4>1. Open(id) => Open(id)'
        BY <2>2, <3>2 DEF Open, Changed
      <4>2. Outcome(i, id)' = Outcome(i, id)
        BY <2>2, <3>2 DEF Outcome, Positions
      <4> QED
        BY <2>2, <3>2, <4>1, <4>2, SettledStays DEF Serving
    <3> QED
      BY <3>1, <3>2
  <2>3. CASE Store(p)
    BY <2>2, <2>3, Moved DEF Store, Step, TypeOK, Underway, Changed, Rules, Asked
  <2>4. CASE Cache(p)
    BY <2>2, <2>4, Moved DEF Cache, Step, TypeOK, Underway, Changed, Rules, Asked
  <2>5. CASE Publish(p) \/ PublishAgain(p)
    <3>1. /\ req[p] \in Asked /\ req'[p].pc # "new" /\ req'[p].sent /\ req'[p].kind = req[p].kind
          /\ req'[p].id = req[p].id
          /\ \A q \in Requests \ {p} : req'[q] = req[q]
      BY <2>5, Sends DEF Publish, PublishAgain
    <3>2. inbox[i] \in Seq(Messages)
      BY DEF TypeOK
    <3>6. Deliver(Message(p)) /\ UNCHANGED <<pg, cache, phase, load>>
      BY <2>5 DEF Publish, PublishAgain
    <3>3. CASE phase[i] # "up"
      BY <3>6, <3>3 DEF Deliver, Settled, Serving, TypeOK
    <3>4. CASE phase[i] = "up" /\ req[p].kind # "delete"
      <4>1. inbox'[i] = Append(inbox[i], Reload)
        BY <3>6, <3>4 DEF Deliver, Message, TypeOK
      <4>2. Reloading(i)'
        BY <4>1, <3>2, <3>4 DEF Reloading, Positions, Reload
      <4> QED
        BY <4>2, ReloadAgreesNext DEF Settled
    <3>5. CASE phase[i] = "up" /\ req[p].kind = "delete"
      <4>1. inbox'[i] = Append(inbox[i], Deletion(req[p].id))
        BY <3>6, <3>5 DEF Deliver, Message, TypeOK
      <4>2. CASE id = req[p].id
        <5>1. Deleted(id)'
          BY <3>1, <3>5, <4>2 DEF Deleted
        <5> DEFINE n0 == Len(inbox[i]) + 1
        <5>2. /\ n0 \in DOMAIN inbox'[i] /\ inbox'[i][n0] = Deletion(id)
              /\ \A m \in DOMAIN inbox'[i] : m < n0 \/ m = n0
          BY <4>1, <4>2, <3>2
        <5> HIDE DEF n0
        <5>3. n0 \in Positions(i, Deletion(id))'
          BY <5>2 DEF Positions, Deletion
        <5>4. \A m \in Positions(i, Reload)' : m < n0
          BY <5>2, MessagesDiffer DEF Positions, Reload
        <5>5. Outcome(i, id)' = NoRule
          BY <5>3, <5>4, Zenon DEF Outcome
        <5> QED
          BY <5>1, <5>5, DeletedAgreesNext DEF Settled
      <4>3. CASE id # req[p].id
        <5>1. Open(id) => Open(id)'
          BY <3>1, <4>3 DEF Open, Changed
        <5>2. /\ Positions(i, Deletion(id))' = Positions(i, Deletion(id))
              /\ Positions(i, Reload)' = Positions(i, Reload)
          <6>1. req[p].id \in Ids
            BY <3>1 DEF Asked
          <6>2. Deletion(req[p].id) # Deletion(id) /\ Deletion(req[p].id) # Reload
            BY <6>1, <4>3, MessagesDiffer
          <6>3. ASSUME NEW x, Deletion(req[p].id) # x
                PROVE  {n \in DOMAIN inbox'[i] : inbox'[i][n] = x}
                         = {n \in DOMAIN inbox[i] : inbox[i][n] = x}
            <7> DEFINE last == Deletion(req[p].id)
            <7> HIDE DEF last
            <7>1. inbox'[i] = Append(inbox[i], last) /\ last # x
              BY <4>1, <6>3 DEF last
            <7>2. last \in Messages
              BY <6>1 DEF last, Messages
            <7> QED
              BY <7>1, <7>2, <3>2
          <6> QED
            BY <6>2, <6>3 DEF Positions, Deletion, Reload
        <5>3. pg' = pg /\ load' = load /\ cache' = cache
          BY <3>6
        <5>4. Outcome(i, id)' = Outcome(i, id)
          BY <5>2, <5>3, Zenon DEF Outcome
        <5> QED
          BY <3>6, <3>5, <5>1, <5>3, <5>4, SettledStays DEF Deliver, Serving
      <4> QED
        BY <4>2, <4>3
    <3> QED
      BY <3>3, <3>4, <3>5
  <2>6. CASE Fail(p)
    <3>1. CASE Changed(p)
      BY <2>6, <3>1 DEF Fail, Settled, Serving, TypeOK
    <3>2. CASE ~Changed(p)
      <4>1. Open(id) => Open(id)'
        BY <2>6, <3>2 DEF Fail, Open, Changed, TypeOK
      <4>2. Outcome(i, id)' = Outcome(i, id)
        BY <2>6 DEF Fail, Outcome, Positions
      <4>3. missed[i] => missed'[i]
        BY <2>6 DEF Fail
      <4> QED
        BY <2>6, <4>1, <4>2, <4>3, SettledStays DEF Fail, Serving
    <3> QED
      BY <3>1, <3>2
  <2> QED
    BY <1>2, <2>1, <2>3, <2>4, <2>5, <2>6 DEF Request, Create, Update, Delete
<1>3. ASSUME NEW j \in Instances, Instance(j) PROVE Settled(i, id)'
  <2>1. CASE UNCHANGED req /\ j # i /\ ~Crash(j)
    <3>1. /\ pg'[id] = pg[id] /\ phase'[i] = phase[i] /\ missed'[i] = missed[i]
          /\ inbox'[i] = inbox[i] /\ load'[i] = load[i] /\ cache'[i] = cache[i]
      BY <1>3, <2>1 DEF Instance, Handle, HandleDelete, Query, Swap, QueryFails, Drop, Cut,
                       Reconnect, Start, Subscribe, TypeOK
    <3>2. Outcome(i, id)' = Outcome(i, id)
      BY <3>1, Zenon DEF Outcome, Positions
    <3>3. Open(id) => Open(id)'
      BY <2>1 DEF Open, Changed
    <3> QED
      BY <3>1, <3>2, <3>3, SettledStays DEF Serving
  <2>2. CASE HandleDelete(j) /\ j = i
    <3>1. Outcome(i, id)' = Outcome(i, id)
      BY <2>2, HandledOutcome
    <3>2. Open(id) => Open(id)'
      BY <2>2 DEF HandleDelete, Open, Changed
    <3> QED
      BY <2>2, <3>1, <3>2, SettledStays DEF HandleDelete, Serving
  <2>3. CASE Query(j) /\ j = i
    <3>1. Reloading(i)'
      BY <2>3 DEF Query, Reloading, TypeOK
    <3> QED
      BY <3>1, ReloadAgreesNext DEF Settled
  <2>4. CASE Swap(j) /\ j = i
    <3>1. load[i] # Idle /\ load'[i] = Idle /\ cache'[i] = load[i][1] /\ UNCHANGED <<inbox, pg>>
      BY <2>4 DEF Swap, TypeOK
    <3>2. Outcome(i, id)' = Outcome(i, id)
      BY <3>1, Zenon DEF Outcome, Positions
    <3>3. Open(id) => Open(id)'
      BY <2>4 DEF Swap, Open, Changed
    <3> QED
      BY <2>4, <3>2, <3>3, SettledStays DEF Swap, Serving
  <2>5. CASE (QueryFails(j) \/ Drop(j)) /\ j = i
    BY <2>5 DEF QueryFails, Drop, Settled, TypeOK
  <2>6. CASE (Cut(j) \/ Reconnect(j) \/ Subscribe(j)) /\ j = i
    <3>1. Outcome(i, id)' = Outcome(i, id)
      BY <2>6 DEF Cut, Reconnect, Subscribe, Outcome, Positions
    <3>2. Open(id) => Open(id)'
      BY <2>6 DEF Cut, Reconnect, Subscribe, Open, Changed
    <3> QED
      BY <2>6, <3>1, <3>2, SettledStays DEF Cut, Reconnect, Subscribe, Serving
  <2>7. CASE Start(j) /\ j = i
    <3>1. inbox'[i] = <<>> /\ load'[i] = Idle /\ cache'[i] = pg /\ pg' = pg
      BY <2>7 DEF Start, Serving, TypeOK, DownIsIdle
    <3>2. Positions(i, Reload)' = {} /\ Positions(i, Deletion(id))' = {}
      BY <3>1 DEF Positions
    <3>3. Outcome(i, id)' = pg'[id]
      BY <3>1, <3>2, Zenon DEF Outcome
    <3> QED
      BY <3>3 DEF Settled, Agrees
  <2>8. CASE Crash(j)
    <3>1. CASE i = j
      BY <2>8, <3>1 DEF Crash, Settled, Serving, TypeOK
    <3>2. CASE i # j
      <4>1. /\ pg' = pg /\ phase'[i] = phase[i] /\ cache'[i] = cache[i]
            /\ inbox'[i] = inbox[i] /\ load'[i] = load[i]
        BY <2>8, <3>2 DEF Crash, TypeOK
      <4>2. Outcome(i, id)' = Outcome(i, id)
        BY <4>1, Zenon DEF Outcome, Positions
      <4>3. missed[i] => missed'[i]
        BY <2>8, <3>2 DEF Crash
      <4>4. ASSUME Serving(i), ~missed'[i], Open(id) PROVE Open(id)'
        <5>1. PICK p \in Requests : Changed(p) /\ req[p].id = id
          BY <4>4 DEF Open
        <5>2. req'[p] = req[p]
          BY <5>1, <2>8, <3>2, <4>4 DEF Crash, Changed, Underway, TypeOK
        <5> QED
          BY <5>1, <5>2 DEF Open, Changed
      <4>5. CASE Open(id)
        BY <4>1, <4>4, <4>5 DEF Settled, Serving
      <4>6. CASE ~Open(id)
        BY <4>1, <4>2, <4>3, <4>6, SettledStays DEF Serving
      <4> QED
        BY <4>5, <4>6
    <3> QED
      BY <3>1, <3>2
  <2> QED
    BY <1>3, <2>1, <2>2, <2>3, <2>4, <2>5, <2>6, <2>7, <2>8
    DEF Instance, Handle, HandleDelete, Query, Swap, QueryFails, Drop, Cut, Reconnect, Start, Subscribe
<1> QED
  BY <1>1, <1>2, <1>3 DEF Next

\* Whatever the order of writes, messages and reloads on any number of instances,
\* and whatever crashes or is cut: an instance that was told of every change will
\* hold what PostgreSQL holds, but for a rule lost to a delete that raced a later
\* change of it.
THEOREM RuleStoreSettles == Spec => []SettlesOnStored
<1> DEFINE AllSettled == \A i \in Instances, id \in Ids : Settled(i, id)
           Inv == TypeOK /\ Announced /\ AllSettled
<1>1. Init => Announced /\ AllSettled
  <2> SUFFICES ASSUME Init PROVE Announced /\ AllSettled
    OBVIOUS
  <2>1. \A i \in Instances : inbox[i] = <<>> /\ load[i] = Idle
    BY DEF Init
  <2>2. Announced
    BY <2>1 DEF Announced
  <2>3. ASSUME NEW i \in Instances, NEW id \in Ids PROVE Settled(i, id)
    <3>1. Outcome(i, id) = cache[i][id]
      <4>1. Positions(i, Reload) = {} /\ Positions(i, Deletion(id)) = {}
        BY <2>1 DEF Positions
      <4> QED
        BY <2>1, <4>1, Zenon DEF Outcome
    <3>2. Serving(i) => cache[i] = pg
      BY DEF Init, Serving
    <3> QED
      BY <3>1, <3>2 DEF Settled, Agrees
  <2> QED
    BY <2>2, <2>3
<1>2. TypeOK /\ TypeOK' /\ Announced /\ AllSettled /\ [Next]_vars => Announced' /\ AllSettled'
  <2> SUFFICES ASSUME TypeOK, TypeOK', Announced, AllSettled, [Next]_vars
               PROVE  Announced' /\ AllSettled'
    OBVIOUS
  <2>1. Announced'
    BY AnnouncedStep
  <2> QED
    BY <2>1, SettledStep
<1>3. AllSettled => SettlesOnStored
  BY DEF Settled, SettlesOnStored
<1> HIDE DEF AllSettled
<1> QED
  BY <1>1, <1>2, <1>3, RuleStoreType, PTL DEF Spec
=============================================================================
