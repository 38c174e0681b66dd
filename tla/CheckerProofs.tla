-------------------------- MODULE CheckerProofs -----------------------------
(***************************************************************************)
(* Theorems about Checker, for any number of requests, rules, levels and   *)
(* failures.                                                               *)
(***************************************************************************)
EXTENDS Checker, FiniteSetTheorems, TLAPS

\* A request asks for places of known keys.
LEMMA KeysOfType ==
    ASSUME NEW q \in Requests, NEW r \in Rules
    PROVE  KeysOf(q, r) \subseteq Keys
BY CheckerAssumption DEF KeysOf

\* What a payment needs and does.
LEMMA PayDef ==
    ASSUME NEW K, Engine!Pay(K)
    PROVE  /\ \A k \in K : room[k] > 0
           /\ room' = [k \in Keys |-> IF k \in K THEN room[k] - 1 ELSE room[k]]
           /\ taken' = [k \in Keys |-> IF k \in K THEN taken[k] + 1 ELSE taken[k]]
BY DEF Engine!Pay, Engine!HasPlace

(***************************************************************************)
(* Types.  The parts of TypeOK.                                            *)
(***************************************************************************)
\* The accounts of the keys.
Accounts ==
    /\ room \in [Keys -> Nat] /\ taken \in [Keys -> Nat] /\ gained \in [Keys -> 0 .. MaxGain]
    /\ \A k \in Keys : /\ room[k] <= Capacity[k]
                       /\ room[k] + taken[k] = Capacity[k] + gained[k]
\* A request, before or after it began.
Requesting(x) ==
    \/ x = [pc |-> "new"]
    \/ /\ x \in Progress
       /\ x.granted \cap x.refused = {}
       /\ x.todo \cap (x.granted \cup x.refused) = {}
       /\ x.unlogged \subseteq x.refused
\* The counters and the deny logs.
Counters == counts \in [Rules -> [allow : Nat, deny : Nat]]
\* No log holds more than it may.
Logs ==
    /\ denyLog \in [Rules -> Seq(Requests)] /\ pushes \in [Rules -> Seq(Requests)]
    /\ \A r \in Rules : Len(denyLog[r]) <= DenyLogLen

\* TypeOK, part by part.
LEMMA TypeParts ==
    TypeOK <=> /\ Accounts /\ Counters /\ Logs /\ failures \in 0 .. MaxFailures
               /\ DOMAIN req = Requests /\ req = [q \in Requests |-> req[q]]
               /\ \A q \in Requests : Requesting(req[q])
<1> DEFINE Sound(x) == /\ x.granted \cap x.refused = {}
                       /\ x.todo \cap (x.granted \cup x.refused) = {}
                       /\ x.unlogged \subseteq x.refused
           New == [pc |-> "new"]
<1>1. New.pc = "new" /\ \A x \in Progress : x.pc # "new"
  BY DEF Progress
<1>2. ASSUME NEW q \in Requests
      PROVE  Requesting(req[q]) <=> /\ req[q] \in Progress \cup {New}
                                    /\ q \in Begun => Sound(req[q])
  BY <1>1 DEF Requesting, Begun
<1>3. req \in [Requests -> Progress \cup {New}]
        <=> /\ DOMAIN req = Requests /\ req = [q \in Requests |-> req[q]]
            /\ \A q \in Requests : req[q] \in Progress \cup {New}
  OBVIOUS
<1> HIDE DEF New, Sound
<1>4. TypeOK <=> /\ Accounts /\ Counters /\ Logs /\ failures \in 0 .. MaxFailures
                 /\ req \in [Requests -> Progress \cup {New}]
                 /\ \A q \in Begun : Sound(req[q])
  BY DEF TypeOK, Accounts, Counters, Logs, New, Sound
<1>5. Begun \subseteq Requests
  BY DEF Begun
<1> QED
  BY <1>2, <1>3, <1>4, <1>5

\* The same after a step.
LEMMA TypePartsNext ==
    (TypeOK <=> /\ Accounts /\ Counters /\ Logs /\ failures \in 0 .. MaxFailures
                /\ DOMAIN req = Requests /\ req = [q \in Requests |-> req[q]]
                /\ \A q \in Requests : Requesting(req[q]))'
BY TypeParts, PTL

\* A place is moved from room to taken, or given by time.
LEMMA AccountsStep ==
    ASSUME Accounts, [Next]_vars PROVE Accounts'
<1>1. CASE UNCHANGED <<room, taken, gained>>
  BY <1>1 DEF Accounts
<1>2. ASSUME NEW q \in Requests, NEW r \in Rules, Engine!Pay(KeysOf(q, r)), UNCHANGED gained
      PROVE  Accounts'
  <2> DEFINE K == KeysOf(q, r)
  <2>1. /\ \A k \in K : room[k] > 0
        /\ room' = [k \in Keys |-> IF k \in K THEN room[k] - 1 ELSE room[k]]
        /\ taken' = [k \in Keys |-> IF k \in K THEN taken[k] + 1 ELSE taken[k]]
    BY <1>2, PayDef
  <2> HIDE DEF K
  <2> QED
    BY <1>2, <2>1, CheckerAssumption DEF Accounts
<1>3. ASSUME NEW k \in Keys, Gain(k) PROVE Accounts'
  <2>1. /\ room' = [room EXCEPT ![k] = room[k] + 1] /\ gained' = [gained EXCEPT ![k] = gained[k] + 1]
        /\ UNCHANGED taken /\ room[k] < Capacity[k] /\ gained[k] < MaxGain
    BY <1>3 DEF Gain
  <2>2. room' \in [Keys -> Nat] /\ gained' \in [Keys -> 0 .. MaxGain]
    <3>1. gained[k] + 1 \in 0 .. MaxGain /\ room[k] + 1 \in Nat
      BY <2>1, CheckerAssumption DEF Accounts
    <3> QED
      BY <2>1, <3>1 DEF Accounts
  <2>3. ASSUME NEW h \in Keys
        PROVE  /\ room'[h] <= Capacity[h]
               /\ room'[h] + taken'[h] = Capacity[h] + gained'[h]
    <3>1. CASE h = k
      <4>1. room'[k] = room[k] + 1 /\ gained'[k] = gained[k] + 1 /\ taken'[k] = taken[k]
        BY <2>1 DEF Accounts
      <4>2. room[k] \in Nat /\ gained[k] \in Nat /\ taken[k] \in Nat /\ Capacity[k] \in Nat
        BY CheckerAssumption DEF Accounts
      <4>3. room[k] + taken[k] = Capacity[k] + gained[k] /\ room[k] < Capacity[k]
        BY <2>1 DEF Accounts
      <4>4. /\ room[k] + 1 <= Capacity[k]
            /\ (room[k] + 1) + taken[k] = Capacity[k] + (gained[k] + 1)
        BY <4>2, <4>3
      <4> QED
        BY <3>1, <4>1, <4>4
    <3>2. CASE h # k
      BY <2>1, <3>2 DEF Accounts
    <3> QED
      BY <3>1, <3>2
  <2> QED
    BY <2>1, <2>2, <2>3 DEF Accounts
<1> QED
  BY <1>1, <1>2, <1>3
  DEF Next, Decide, vars, Begin, Grant, Refuse, Push, Answer, SendAgain, EvalFails, PushAgain,
      PushFails, AnswerAgain, AnswerFails, PipelineBreaks

\* The request q is left with these sets, and no other request moves.
Advances(q, pc, todo, granted, refused, unlogged) ==
    /\ req[q] \in Progress
    /\ \E x \in Progress :
           /\ req' = [req EXCEPT ![q] = x]
           /\ x.pc = pc /\ x.todo = todo
           /\ x.granted = granted /\ x.refused = refused /\ x.unlogged = unlogged

\* What each step of Decide does to its request.
LEMMA Moves ==
    ASSUME \A p \in Requests : Requesting(req[p]), NEW q \in Requests
    PROVE
        /\ \A r \in Rules : Grant(q, r) =>
             r \in req[q].todo /\ Advances(q, "deciding", req[q].todo \ {r}, req[q].granted \cup {r},
                      req[q].refused, req[q].unlogged)
        /\ \A r \in Rules : Refuse(q, r) =>
             r \in req[q].todo /\ Advances(q, "pushing", req[q].todo \ {r}, req[q].granted,
                      req[q].refused \cup {r}, req[q].unlogged)
        /\ \A r \in Rules : Push(q, r) =>
             Advances(q, "deciding", req[q].todo, req[q].granted,
                      req[q].refused, req[q].unlogged)
        /\ \A r \in Rules : PushFails(q, r) =>
             r \in req[q].refused /\ Advances(q, "deciding", req[q].todo, req[q].granted,
                      req[q].refused, req[q].unlogged \cup {r})
        /\ Answer(q) =>
             Advances(q, "answered", req[q].todo, req[q].granted,
                      req[q].refused, req[q].unlogged)
        /\ \A r \in Rules : EvalFails(q, r) =>
             Advances(q, "failed", req[q].todo, req[q].granted,
                      req[q].refused, req[q].unlogged)
        /\ \A last : AnswerFails(q, last) =>
             Advances(q, "failed", req[q].todo, req[q].granted,
                      req[q].refused, req[q].unlogged)
<1>1. ASSUME req[q].pc \in {"deciding", "pushing"} PROVE req[q] \in Progress
  BY <1>1 DEF Requesting
<1>2. ASSUME NEW r \in Rules, Grant(q, r)
      PROVE  r \in req[q].todo /\ Advances(q, "deciding", req[q].todo \ {r}, req[q].granted \cup {r},
                      req[q].refused, req[q].unlogged)
  <2> DEFINE x == [req[q] EXCEPT !.todo = @ \ {r}, !.granted = @ \cup {r}]
  <2>1. req[q] \in Progress /\ r \in req[q].todo
    BY <1>1, <1>2 DEF Grant, At
  <2>2. /\ x \in Progress /\ x.pc = "deciding" /\ x.todo = req[q].todo \ {r}
        /\ x.granted = req[q].granted \cup {r} /\ x.refused = req[q].refused
        /\ x.unlogged = req[q].unlogged
    <3>1. req[q].pc = "deciding"
      BY <1>2 DEF Grant, At
    <3> QED
      BY <2>1, <3>1 DEF Progress
  <2>3. req' = [req EXCEPT ![q] = x]
    BY <1>2 DEF Grant, At
  <2> HIDE DEF x
  <2> QED
    BY <2>1, <2>2, <2>3 DEF Advances
<1>3. ASSUME NEW r \in Rules, Refuse(q, r)
      PROVE  r \in req[q].todo /\ Advances(q, "pushing", req[q].todo \ {r}, req[q].granted,
                      req[q].refused \cup {r}, req[q].unlogged)
  <2> DEFINE x == [req[q] EXCEPT !.todo = @ \ {r}, !.refused = @ \cup {r}, !.pc = "pushing"]
  <2>1. req[q] \in Progress /\ r \in req[q].todo
    BY <1>1, <1>3 DEF Refuse, At
  <2>2. /\ x \in Progress /\ x.pc = "pushing" /\ x.todo = req[q].todo \ {r}
        /\ x.granted = req[q].granted /\ x.refused = req[q].refused \cup {r}
        /\ x.unlogged = req[q].unlogged
    BY <2>1 DEF Progress
  <2>3. req' = [req EXCEPT ![q] = x]
    BY <1>3 DEF Refuse, At
  <2> HIDE DEF x
  <2> QED
    BY <2>1, <2>2, <2>3 DEF Advances
<1>4. ASSUME NEW r \in Rules, Push(q, r)
      PROVE  Advances(q, "deciding", req[q].todo, req[q].granted,
                      req[q].refused, req[q].unlogged)
  <2> DEFINE x == [req[q] EXCEPT !.pc = "deciding"]
  <2>1. req[q] \in Progress
    BY <1>1, <1>4 DEF Push, Pushing
  <2>2. /\ x \in Progress /\ x.pc = "deciding" /\ x.todo = req[q].todo
        /\ x.granted = req[q].granted /\ x.refused = req[q].refused
        /\ x.unlogged = req[q].unlogged
    BY <2>1 DEF Progress
  <2>3. req' = [req EXCEPT ![q] = x]
    BY <1>4 DEF Push, Pushing
  <2> HIDE DEF x
  <2> QED
    BY <2>1, <2>2, <2>3 DEF Advances
<1>5. ASSUME NEW r \in Rules, PushFails(q, r)
      PROVE  r \in req[q].refused /\ Advances(q, "deciding", req[q].todo, req[q].granted,
                      req[q].refused, req[q].unlogged \cup {r})
  <2> DEFINE x == [req[q] EXCEPT !.pc = "deciding", !.unlogged = @ \cup {r}]
  <2>1. req[q] \in Progress /\ r \in req[q].refused
    BY <1>1, <1>5 DEF PushFails, Pushing
  <2>2. /\ x \in Progress /\ x.pc = "deciding" /\ x.todo = req[q].todo
        /\ x.granted = req[q].granted /\ x.refused = req[q].refused
        /\ x.unlogged = req[q].unlogged \cup {r}
    BY <2>1 DEF Progress
  <2>3. req' = [req EXCEPT ![q] = x]
    BY <1>5 DEF PushFails, Pushing
  <2> HIDE DEF x
  <2> QED
    BY <2>1, <2>2, <2>3 DEF Advances
<1>6. ASSUME Answer(q)
      PROVE  Advances(q, "answered", req[q].todo, req[q].granted,
                      req[q].refused, req[q].unlogged)
  <2> DEFINE x == [req[q] EXCEPT !.pc = "answered"]
  <2>1. req[q] \in Progress
    BY <1>1, <1>6 DEF Answer
  <2>2. /\ x \in Progress /\ x.pc = "answered" /\ x.todo = req[q].todo
        /\ x.granted = req[q].granted /\ x.refused = req[q].refused
        /\ x.unlogged = req[q].unlogged
    BY <2>1 DEF Progress
  <2>3. req' = [req EXCEPT ![q] = x]
    BY <1>6 DEF Answer
  <2> HIDE DEF x
  <2> QED
    BY <2>1, <2>2, <2>3 DEF Advances
<1>7. ASSUME NEW r \in Rules, EvalFails(q, r)
      PROVE  Advances(q, "failed", req[q].todo, req[q].granted,
                      req[q].refused, req[q].unlogged)
  <2> DEFINE x == [req[q] EXCEPT !.pc = "failed"]
  <2>1. req[q] \in Progress
    BY <1>1, <1>7 DEF EvalFails, At
  <2>2. /\ x \in Progress /\ x.pc = "failed" /\ x.todo = req[q].todo
        /\ x.granted = req[q].granted /\ x.refused = req[q].refused
        /\ x.unlogged = req[q].unlogged
    BY <2>1 DEF Progress
  <2>3. req' = [req EXCEPT ![q] = x]
    BY <1>7 DEF EvalFails, At
  <2> HIDE DEF x
  <2> QED
    BY <2>1, <2>2, <2>3 DEF Advances
<1>8. ASSUME NEW last, AnswerFails(q, last)
      PROVE  Advances(q, "failed", req[q].todo, req[q].granted,
                      req[q].refused, req[q].unlogged)
  <2> DEFINE x == [req[q] EXCEPT !.pc = "failed"]
  <2>1. req[q] \in Progress
    BY <1>1, <1>8 DEF AnswerFails, PipelineBreaks
  <2>2. /\ x \in Progress /\ x.pc = "failed" /\ x.todo = req[q].todo
        /\ x.granted = req[q].granted /\ x.refused = req[q].refused
        /\ x.unlogged = req[q].unlogged
    BY <2>1 DEF Progress
  <2>3. req' = [req EXCEPT ![q] = x]
    BY <1>8 DEF AnswerFails, PipelineBreaks
  <2> HIDE DEF x
  <2> QED
    BY <2>1, <2>2, <2>3 DEF Advances
<1> QED
  BY <1>2, <1>3, <1>4, <1>5, <1>6, <1>7, <1>8

\* Every request stays at one place of Decide.
LEMMA RequestingStep ==
    ASSUME req = [q \in Requests |-> req[q]], \A q \in Requests : Requesting(req[q]), [Next]_vars
    PROVE  req' = [q \in Requests |-> req'[q]] /\ \A q \in Requests : Requesting(req'[q])
<1> DEFINE Sound == req' = [p \in Requests |-> req'[p]] /\ \A p \in Requests : Requesting(req'[p])
<1>1. CASE UNCHANGED req
  BY <1>1
<1>2. ASSUME NEW q \in Requests, NEW x, Requesting(x), req' = [req EXCEPT ![q] = x]
      PROVE  Sound
  BY <1>2
<1>3. ASSUME NEW q \in Requests, NEW M \in Matched, Begin(q, M)
      PROVE  Sound
  <2>1. Requesting([pc |-> "deciding", todo |-> M, granted |-> {}, refused |-> {},
                    unlogged |-> {}])
    BY CheckerAssumption DEF Requesting, Progress
  <2> QED
    BY <2>1, <1>2, <1>3 DEF Begin
<1>4. ASSUME NEW q \in Requests, NEW pc, NEW todo, NEW granted, NEW refused, NEW unlogged,
             Advances(q, pc, todo, granted, refused, unlogged),
             \/ /\ todo = req[q].todo /\ granted = req[q].granted /\ refused = req[q].refused
                /\ unlogged \subseteq req[q].unlogged \cup req[q].refused
             \/ \E r \in req[q].todo :
                    /\ todo = req[q].todo \ {r} /\ unlogged = req[q].unlogged
                    /\ \/ granted = req[q].granted \cup {r} /\ refused = req[q].refused
                       \/ granted = req[q].granted /\ refused = req[q].refused \cup {r}
      PROVE  Sound
  <2>1. PICK x \in Progress :
            /\ req' = [req EXCEPT ![q] = x]
            /\ x.todo = todo /\ x.granted = granted /\ x.refused = refused
            /\ x.unlogged = unlogged
    BY <1>4 DEF Advances
  <2>2. Requesting(req[q]) /\ req[q] \in Progress /\ req[q] # [pc |-> "new"]
    BY <1>4 DEF Progress, Advances
  <2>3. Requesting(x)
    BY <1>4, <2>1, <2>2 DEF Requesting
  <2> QED
    BY <1>2, <2>1, <2>3
<1>5. ASSUME NEW q \in Requests, NEW r \in Rules,
             \/ Grant(q, r) \/ Refuse(q, r) \/ Push(q, r) \/ PushFails(q, r)
             \/ EvalFails(q, r)
      PROVE  Sound
  <2>1. CASE Grant(q, r)
    BY <1>4, <2>1, Moves
  <2>2. CASE Refuse(q, r)
    BY <1>4, <2>2, Moves
  <2>3. CASE Push(q, r)
    <3>1. req[q].unlogged \subseteq req[q].unlogged \cup req[q].refused
      OBVIOUS
    <3> QED
      BY <1>4, <2>3, <3>1, Moves
  <2>4. CASE PushFails(q, r)
    BY <1>4, <2>4, Moves
  <2>6. CASE EvalFails(q, r)
    BY <1>4, <2>6, Moves
  <2> QED
    BY <1>5, <2>1, <2>2, <2>3, <2>4, <2>6
<1>6. ASSUME NEW q \in Requests, Answer(q) PROVE Sound
  <2>1. req[q].unlogged \subseteq req[q].unlogged \cup req[q].refused
    OBVIOUS
  <2> QED
    BY <1>4, <1>6, <2>1, Moves
<1>7. ASSUME NEW q \in Requests, NEW last, AnswerFails(q, last) PROVE Sound
  BY <1>4, <1>7, Moves
<1> QED
  BY <1>1, <1>3, <1>5, <1>6, <1>7
  DEF Next, Decide, vars, SendAgain, PushAgain, AnswerAgain, Gain

\* Ticks are natural numbers.
LEMMA CountersStep ==
    ASSUME Counters, [Next]_vars PROVE Counters'
<1>1. CASE UNCHANGED counts
  BY <1>1 DEF Counters
<1>2. ASSUME NEW q \in Requests, NEW R, CountTicks(q, R) PROVE Counters'
  <2>1. ASSUME NEW r \in Rules
        PROVE  [allow |-> counts[r].allow + Ticked(q, r).allow,
                deny  |-> counts[r].deny + Ticked(q, r).deny] \in [allow : Nat, deny : Nat]
    BY DEF Ticked, Counters
  <2> QED
    BY <1>2, <2>1 DEF CountTicks, Counters
<1> QED
  BY <1>1, <1>2
  DEF Next, Decide, vars, Begin, Grant, Refuse, Push, Answer, SendAgain, EvalFails, PushAgain,
      PushFails, AnswerAgain, AnswerFails, PipelineBreaks, Gain

\* The log has the newest entries of the history s: all of them, or as many as a log
\* may hold.
Holds(log, s) ==
    /\ log \in Seq(Requests) /\ s \in Seq(Requests) /\ Len(log) <= DenyLogLen
    /\ Len(log) <= Len(s) /\ \A n \in 1 .. Len(log) : log[n] = s[n]
    /\ Len(log) = Len(s) \/ Len(log) = DenyLogLen

\* What Longest leaves is the newest end.
LEMMA LongestHolds ==
    ASSUME NEW s \in Seq(Requests)
    PROVE  Holds(Longest(s), s)
<1>1. Len(s) \in Nat /\ DenyLogLen \in Nat \ {0}
  BY CheckerAssumption
<1>2. CASE Len(s) <= DenyLogLen
  BY <1>1, <1>2 DEF Longest, Holds
<1>3. CASE Len(s) > DenyLogLen
  <2> DEFINE new == SubSeq(s, 1, DenyLogLen)
  <2>1. new = [i \in 1 .. DenyLogLen |-> s[i]]
    BY <1>1, <1>3
  <2>2. \A i \in 1 .. DenyLogLen : s[i] \in Requests
    BY <1>1, <1>3
  <2>3. new \in Seq(Requests) /\ Len(new) = DenyLogLen
    BY <1>1, <2>1, <2>2
  <2>4. Longest(s) = new
    BY <1>3 DEF Longest
  <2> HIDE DEF new
  <2> QED
    BY <1>1, <1>3, <2>1, <2>3, <2>4 DEF Holds
<1> QED
  BY <1>1, <1>2, <1>3

\* So is what a push leaves of a log that held the newest end.
LEMMA LongestLog ==
    ASSUME NEW log, NEW s, Holds(log, s), NEW q \in Requests
    PROVE  Holds(Longest(<<q>> \o log), <<q>> \o s)
<1> DEFINE l == <<q>> \o log
           t == <<q>> \o s
           new == Longest(l)
<1>1. /\ log \in Seq(Requests) /\ s \in Seq(Requests) /\ Len(log) \in Nat /\ Len(s) \in Nat
      /\ DenyLogLen \in Nat \ {0}
  BY CheckerAssumption DEF Holds
<1>2. /\ l \in Seq(Requests) /\ Len(l) = Len(log) + 1
      /\ l[1] = q /\ \A n \in 2 .. Len(l) : l[n] = log[n - 1]
  BY <1>1
<1>3. /\ t \in Seq(Requests) /\ Len(t) = Len(s) + 1
      /\ t[1] = q /\ \A n \in 2 .. Len(t) : t[n] = s[n - 1]
  BY <1>1
<1>4. Holds(new, l)
  BY <1>2, LongestHolds
<1> HIDE DEF l, t, new
<1>5. /\ Len(log) <= Len(s) /\ (Len(log) = Len(s) \/ Len(log) = DenyLogLen)
      /\ \A n \in 1 .. Len(log) : log[n] = s[n]
  BY DEF Holds
<1>6. /\ new \in Seq(Requests) /\ Len(new) \in Nat /\ Len(new) <= Len(l)
      /\ \A n \in 1 .. Len(new) : new[n] = l[n]
      /\ Len(new) <= DenyLogLen /\ (Len(new) = Len(l) \/ Len(new) = DenyLogLen)
  BY <1>4 DEF Holds
<1>7. ASSUME NEW n \in 1 .. Len(new) PROVE new[n] = t[n]
  <2>1. CASE n = 1
    BY <1>2, <1>3, <1>6, <2>1
  <2>2. CASE n # 1
    <3>1. /\ n \in Nat /\ n >= 2 /\ n <= Len(new) /\ Len(new) <= Len(log) + 1
          /\ Len(log) \in Nat /\ Len(s) \in Nat /\ Len(log) <= Len(s)
          /\ Len(l) = Len(log) + 1 /\ Len(t) = Len(s) + 1
      <4>1. n \in Nat /\ n >= 2 /\ n <= Len(new)
        BY <1>6, <2>2
      <4> QED
        BY <4>1, <1>1, <1>2, <1>3, <1>5, <1>6
    <3>3. n \in 2 .. Len(l) /\ n \in 2 .. Len(t) /\ n - 1 \in 1 .. Len(log)
      BY <3>1
    <3>2. new[n] = l[n] /\ l[n] = log[n - 1] /\ t[n] = s[n - 1] /\ log[n - 1] = s[n - 1]
      BY <1>2, <1>3, <1>5, <1>6, <3>3
    <3> QED
      BY <3>2
  <2> QED
    BY <2>1, <2>2
<1>8. /\ Len(new) <= DenyLogLen /\ Len(new) <= Len(t)
      /\ Len(new) = Len(t) \/ Len(new) = DenyLogLen
  BY <1>1, <1>2, <1>3, <1>4, <1>5, <1>6 DEF Holds
<1>9. Holds(new, t)
  BY <1>3, <1>6, <1>7, <1>8 DEF Holds
<1> QED
  BY <1>9 DEF l, t, new

\* A push leaves the log a sequence of requests no longer than allowed.
LEMMA LogsStep ==
    ASSUME Logs, [Next]_vars PROVE Logs'
<1>1. CASE UNCHANGED <<denyLog, pushes>>
  BY <1>1 DEF Logs
<1>2. ASSUME NEW q \in Requests, NEW r \in Rules,
             denyLog' = [denyLog EXCEPT ![r] = Longest(<<q>> \o @)],
             pushes' = [pushes EXCEPT ![r] = <<q>> \o @]
      PROVE  Logs'
  <2>1. <<q>> \o denyLog[r] \in Seq(Requests) /\ <<q>> \o pushes[r] \in Seq(Requests)
    BY DEF Logs
  <2>2. /\ Longest(<<q>> \o denyLog[r]) \in Seq(Requests)
        /\ Len(Longest(<<q>> \o denyLog[r])) <= DenyLogLen
    BY <2>1, LongestHolds DEF Holds
  <2> QED
    BY <1>2, <2>1, <2>2 DEF Logs
<1> QED
  BY <1>1, <1>2
  DEF Next, Decide, vars, Begin, Grant, Refuse, Push, Answer, SendAgain, EvalFails, PushAgain,
      PushFails, AnswerAgain, AnswerFails, PipelineBreaks, Gain

\* Failures are counted, up to their bound.
LEMMA FailuresStep ==
    ASSUME failures \in 0 .. MaxFailures, [Next]_vars
    PROVE  failures' \in 0 .. MaxFailures /\ failures <= failures'
<1>1. CASE Failure
  BY <1>1, CheckerAssumption DEF Failure
<1>2. CASE UNCHANGED failures
  BY <1>2
<1> QED
  BY <1>1, <1>2
  DEF Next, Decide, vars, Begin, Grant, Refuse, Push, Answer, SendAgain, EvalFails, PushAgain,
    PushFails, AnswerAgain, AnswerFails, PipelineBreaks, Gain

\* Every variable of Checker has its type, and the account of every key balances.
THEOREM CheckerType == Spec => []TypeOK
<1>1. Init => TypeOK
  <2> SUFFICES ASSUME Init PROVE TypeOK
    OBVIOUS
  <2> USE CheckerAssumption
  <2>1. Accounts
    BY DEF Init, Accounts
  <2>2. Counters
    BY DEF Init, Counters
  <2>3. Logs /\ failures \in 0 .. MaxFailures
    BY DEF Init, Logs
  <2>4. \A q \in Requests : Requesting(req[q])
    BY DEF Init, Requesting
  <2>5. DOMAIN req = Requests /\ req = [q \in Requests |-> req[q]]
    BY DEF Init
  <2> QED
    BY <2>1, <2>2, <2>3, <2>4, <2>5, TypeParts
<1>2. TypeOK /\ [Next]_vars => TypeOK'
  <2> SUFFICES ASSUME TypeOK, [Next]_vars PROVE TypeOK'
    OBVIOUS
  <2>1. /\ Accounts /\ Counters /\ Logs /\ failures \in 0 .. MaxFailures
        /\ req = [q \in Requests |-> req[q]]
        /\ \A q \in Requests : Requesting(req[q])
    BY TypeParts
  <2>2. Accounts' /\ Counters' /\ Logs' /\ failures' \in 0 .. MaxFailures
    BY <2>1, AccountsStep, CountersStep, LogsStep, FailuresStep
  <2>3. req' = [q \in Requests |-> req'[q]] /\ \A q \in Requests : Requesting(req'[q])
    BY <2>1, RequestingStep
  <2>4. DOMAIN req' = Requests
    BY <2>3
  <2> QED
    BY <2>2, <2>3, <2>4, TypePartsNext
<1> QED
  BY <1>1, <1>2, PTL DEF Spec

\* The same, one request at a time.
LEMMA Advanced ==
    ASSUME TypeOK, NEW q \in Requests, NEW pc, NEW todo, NEW granted, NEW refused, NEW unlogged,
           Advances(q, pc, todo, granted, refused, unlogged)
    PROVE  /\ req[q].pc # "new" /\ req'[q].pc # "new"
           /\ req'[q].pc = pc /\ req'[q].todo = todo
           /\ req'[q].granted = granted /\ req'[q].refused = refused
           /\ req'[q].unlogged = unlogged
           /\ \A p \in Requests \ {q} : req'[p] = req[p]
<1>1. PICK x \in Progress :
          /\ req' = [req EXCEPT ![q] = x]
          /\ x.pc = pc /\ x.todo = todo
          /\ x.granted = granted /\ x.refused = refused /\ x.unlogged = unlogged
  BY DEF Advances
<1>2. req'[q] = x /\ \A p \in Requests \ {q} : req'[p] = req[p]
  BY <1>1, TypeParts
<1>3. req[q].pc # "new" /\ x.pc # "new"
  BY DEF Advances, Progress
<1> QED
  BY <1>1, <1>2, <1>3

\* The part of TypeOK that Moves needs.
LEMMA Requestings == TypeOK => \A q \in Requests : Requesting(req[q])
BY TypeParts

(***************************************************************************)
(* A step, by what it does to the requests.                                *)
(***************************************************************************)
\* Every step is one of these, or leaves the requests and the accounts alone.
LEMMA Steps ==
    ASSUME TypeOK, [Next]_vars
    PROVE  \/ UNCHANGED <<req, room, taken, counts, denyLog, pushes>> /\ UNCHANGED failures
           \/ \E k \in Keys : Gain(k)
           \/ \E q \in Requests, M \in Matched : Begin(q, M)
           \/ \E q \in Requests : Answer(q)
           \/ \E q \in Requests, r \in Rules :
                  \/ Grant(q, r) \/ Refuse(q, r) \/ Push(q, r)
                  \/ SendAgain(q, r) \/ EvalFails(q, r) \/ PushAgain(q, r)
                  \/ PushFails(q, r)
           \/ \E q \in Requests : \E last : AnswerAgain(q, last) \/ AnswerFails(q, last)
BY DEF Next, Decide, vars

(***************************************************************************)
(* Decide takes every rule into account.                                   *)
(***************************************************************************)
\* The rules a request matched are those it has granted, refused or still to ask.
Whole(q) ==
    /\ req[q].granted \cup req[q].refused \cup req[q].todo \in Matched
    /\ req[q].pc = "answered" => req[q].todo = {}

\* This is so of every request that a process has begun.
Complete == \A q \in Begun : Whole(q)

\* A rule moves from one set of a request to another and never out of them.
LEMMA CompleteStep ==
    ASSUME TypeOK, Complete, [Next]_vars
    PROVE  Complete'
<1>1. CASE UNCHANGED req
  BY <1>1 DEF Complete, Whole, Begun
<1>2. ASSUME NEW q \in Requests, \A p \in Requests \ {q} : req'[p] = req[p], Whole(q)'
      PROVE  Complete'
  BY <1>2 DEF Complete, Whole, Begun
<1>3. ASSUME NEW q \in Requests, NEW M \in Matched, Begin(q, M) PROVE Complete'
  <2>1. /\ req'[q] = [pc |-> "deciding", todo |-> M, granted |-> {}, refused |-> {},
                      unlogged |-> {}]
        /\ \A p \in Requests \ {q} : req'[p] = req[p]
    BY <1>3, TypeParts DEF Begin
  <2>2. Whole(q)'
    BY <2>1 DEF Whole
  <2> QED
    BY <1>2, <2>1, <2>2
<1>4. ASSUME NEW q \in Requests, NEW pc, NEW todo, NEW granted, NEW refused, NEW unlogged,
             Advances(q, pc, todo, granted, refused, unlogged),
             granted \cup refused \cup todo
                 = req[q].granted \cup req[q].refused \cup req[q].todo,
             pc = "answered" => todo = {}
      PROVE  Complete'
  <2>1. /\ req[q].pc # "new" /\ req'[q].pc = pc /\ req'[q].todo = todo
        /\ req'[q].granted = granted /\ req'[q].refused = refused
        /\ \A p \in Requests \ {q} : req'[p] = req[p]
    BY <1>4, Advanced
  <2>2. q \in Begun
    BY <2>1 DEF Begun
  <2>3. Whole(q)'
    BY <1>4, <2>1, <2>2 DEF Complete, Whole
  <2> QED
    BY <1>2, <2>1, <2>3
<1>5. \A q \in Requests : Requesting(req[q])
  BY Requestings
<1>8. ASSUME NEW q \in Requests, NEW pc, NEW unlogged, pc # "answered",
             Advances(q, pc, req[q].todo, req[q].granted, req[q].refused, unlogged)
      PROVE  Complete'
  BY <1>4, <1>8
<1>6. ASSUME NEW q \in Requests, Answer(q) PROVE Complete'
  <2>1. Advances(q, "answered", req[q].todo, req[q].granted, req[q].refused, req[q].unlogged)
    BY <1>5, <1>6, Moves
  <2>2. req[q].todo = {}
    BY <1>6 DEF Answer
  <2> QED
    BY <1>4, <2>1, <2>2
<1>7. ASSUME NEW q \in Requests, NEW r \in Rules,
             \/ Grant(q, r) \/ Refuse(q, r) \/ Push(q, r) \/ PushFails(q, r)
             \/ EvalFails(q, r)
      PROVE  Complete'
  <2> DEFINE g == req[q].granted
             f == req[q].refused
             t == req[q].todo
  <2>7. r \in t => /\ (g \cup {r}) \cup f \cup (t \ {r}) = g \cup f \cup t
                   /\ g \cup (f \cup {r}) \cup (t \ {r}) = g \cup f \cup t
    OBVIOUS
  <2>1. CASE Grant(q, r)
    <3>1. r \in t /\ Advances(q, "deciding", t \ {r}, g \cup {r}, f, req[q].unlogged)
      BY <1>5, <2>1, Moves
    <3> HIDE DEF g, f, t
    <3> QED
      BY <1>4, <2>7, <3>1 DEF g, f, t
  <2>2. CASE Refuse(q, r)
    <3>1. r \in t /\ Advances(q, "pushing", t \ {r}, g, f \cup {r}, req[q].unlogged)
      BY <1>5, <2>2, Moves
    <3> HIDE DEF g, f, t
    <3> QED
      BY <1>4, <2>7, <3>1 DEF g, f, t
  <2>3. CASE Push(q, r)
    BY <1>8, <1>5, <2>3, Moves
  <2>4. CASE PushFails(q, r)
    BY <1>8, <1>5, <2>4, Moves
  <2>5. CASE EvalFails(q, r)
    BY <1>8, <1>5, <2>5, Moves
  <2> QED
    BY <1>7, <2>1, <2>2, <2>3, <2>4, <2>5
<1>9. ASSUME NEW q \in Requests, NEW last, AnswerFails(q, last) PROVE Complete'
  BY <1>8, <1>5, <1>9, Moves
<1> QED
  BY <1>1, <1>3, <1>6, <1>7, <1>9, Steps DEF Gain, SendAgain, PushAgain, AnswerAgain

\* Decide fails closed: a verdict takes every rule into account, whatever failed.
THEOREM CheckerFailsClosed == Spec => []FailClosed
<1>1. Init => Complete
  BY DEF Init, Complete, Begun
<1>2. TypeOK /\ Complete /\ [Next]_vars => Complete'
  BY CompleteStep
<1>3. Complete => FailClosed
  BY DEF Complete, Whole, FailClosed, Answered, Begun
<1> QED
  BY CheckerType, <1>1, <1>2, <1>3, PTL DEF Spec

(***************************************************************************)
(* What was taken from a key, against the requests that have it granted.   *)
(***************************************************************************)
\* Each grant took a place; what else was taken, failures lost.
Paid ==
    \A k \in Keys : /\ Cardinality(Granted(k)) <= taken[k]
                    /\ taken[k] <= Cardinality(Granted(k)) + failures

\* The requests are finitely many.
LEMMA GrantedFinite ==
    ASSUME NEW k
    PROVE  IsFiniteSet(Granted(k)) /\ Cardinality(Granted(k)) \in Nat
<1>1. Granted(k) \in SUBSET Requests /\ IsFiniteSet(Requests)
  BY CheckerAssumption DEF Granted, Begun
<1> QED
  BY <1>1, FS_Subset, FS_CardinalityType

\* The same after a step.
LEMMA GrantedFiniteNext ==
    (\A k \in Keys : IsFiniteSet(Granted(k)) /\ Cardinality(Granted(k)) \in Nat)'
<1>1. \A k \in Keys : IsFiniteSet(Granted(k)) /\ Cardinality(Granted(k)) \in Nat
  BY GrantedFinite
<1> QED
  BY <1>1, PTL

\* A step that grants nothing.
LEMMA GrantedStays ==
    ASSUME TypeOK, NEW k, NEW q \in Requests,
           \A p \in Requests \ {q} : req'[p] = req[p],
           \/ req[q].pc = "new" /\ req'[q].granted = {}
           \/ req[q].pc # "new" /\ req'[q].pc # "new" /\ req'[q].granted = req[q].granted
    PROVE  Granted(k)' = Granted(k)
<1>1. ASSUME NEW p \in Requests PROVE p \in Granted(k)' <=> p \in Granted(k)
  BY <1>1 DEF Granted, Begun
<1> QED
  BY <1>1 DEF Granted, Begun

\* A grant adds its request to the keys of its rule, and to no other.
LEMMA GrantedGrows ==
    ASSUME TypeOK, NEW k \in Keys, NEW q \in Requests, NEW r \in Rules, Grant(q, r)
    PROVE  Granted(k)' = IF k \in KeysOf(q, r) THEN Granted(k) \cup {q} ELSE Granted(k)
<1>1. /\ req[q].pc # "new" /\ req'[q].pc # "new"
      /\ req'[q].granted = req[q].granted \cup {r}
      /\ \A p \in Requests \ {q} : req'[p] = req[p]
  <2>1. Advances(q, "deciding", req[q].todo \ {r}, req[q].granted \cup {r},
                 req[q].refused, req[q].unlogged)
    BY Moves, Requestings
  <2> QED
    BY <2>1, Advanced
<1>2. ASSUME NEW p \in Requests
      PROVE  p \in Granted(k)' <=> p \in Granted(k) \/ (p = q /\ k \in KeysOf(q, r))
  BY <1>1, <1>2 DEF Granted, Begun
<1> QED
  BY <1>2 DEF Granted, Begun

\* The places of r's keys are not yet taken for q when q is at r.
LEMMA NotYetGranted ==
    ASSUME TypeOK, NEW q \in Requests, NEW r \in Rules, At(q, r), NEW k \in KeysOf(q, r)
    PROVE  q \notin Granted(k)
<1>1. r \in req[q].todo /\ Requesting(req[q]) /\ req[q].pc = "deciding"
  BY Requestings DEF At
<1>2. req[q].granted \subseteq Rules /\ r \notin req[q].granted
  BY <1>1 DEF Requesting, Progress
<1> QED
  BY <1>2, KeysApart DEF Granted

\* Every place paid is a request granted, or a failure.
LEMMA PaidStep ==
    ASSUME TypeOK, TypeOK', Paid, [Next]_vars
    PROVE  Paid'
<1>1. failures \in Nat /\ failures' \in Nat /\ failures <= failures'
      /\ \A k \in Keys : taken[k] \in Nat /\ taken'[k] \in Nat
  BY FailuresStep, TypeParts, TypePartsNext, CheckerAssumption DEF Accounts
<1>2. ASSUME \A k \in Keys : Granted(k)' = Granted(k) /\ taken'[k] = taken[k]
      PROVE  Paid'
  <2>1. ASSUME NEW k \in Keys
        PROVE  /\ Cardinality(Granted(k)) <= taken'[k]
               /\ taken'[k] <= Cardinality(Granted(k)) + failures'
    BY <1>1, <1>2, GrantedFinite DEF Paid
  <2> QED
    BY <1>2, <2>1 DEF Paid
<1>3. ASSUME NEW q \in Requests, NEW r \in Rules, Engine!Pay(KeysOf(q, r))
      PROVE  \A k \in Keys : taken'[k] = IF k \in KeysOf(q, r) THEN taken[k] + 1 ELSE taken[k]
  BY <1>3, PayDef
<1>4. ASSUME NEW q \in Requests, NEW r \in Rules, Grant(q, r) PROVE Paid'
  <2>1. ASSUME NEW k \in Keys
        PROVE  /\ Cardinality(Granted(k)') <= taken'[k]
               /\ taken'[k] <= Cardinality(Granted(k)') + failures'
    <3>1. CASE k \in KeysOf(q, r)
      <4>1. Granted(k)' = Granted(k) \cup {q}
        BY <1>4, <3>1, GrantedGrows
      <4>2. q \notin Granted(k)
        BY <1>4, <3>1, NotYetGranted DEF Grant
      <4>3. Cardinality(Granted(k)') = Cardinality(Granted(k)) + 1
        BY <4>1, <4>2, GrantedFinite, FS_AddElement
      <4>4. taken'[k] = taken[k] + 1
        BY <1>3, <1>4, <3>1 DEF Grant
      <4>5. Cardinality(Granted(k)) <= taken[k] /\ taken[k] <= Cardinality(Granted(k)) + failures
        BY DEF Paid
      <4> QED
        BY <4>3, <4>4, <4>5, <1>1, GrantedFinite
    <3>2. CASE k \notin KeysOf(q, r)
      <4>1. Granted(k)' = Granted(k)
        BY <1>4, <3>2, GrantedGrows
      <4>2. taken'[k] = taken[k]
        BY <1>3, <1>4, <3>2 DEF Grant
      <4>3. Cardinality(Granted(k)) <= taken[k] /\ taken[k] <= Cardinality(Granted(k)) + failures
        BY DEF Paid
      <4> QED
        BY <4>1, <4>2, <4>3, <1>1, GrantedFinite
    <3> QED
      BY <3>1, <3>2
  <2> QED
    BY <2>1 DEF Paid
<1>5. ASSUME NEW q \in Requests, NEW r \in Rules, Failure,
             \A k \in Keys : Granted(k)' = Granted(k),
             Engine!Pay(KeysOf(q, r)) \/ UNCHANGED taken
      PROVE  Paid'
  <2>1. ASSUME NEW k \in Keys
        PROVE  /\ Cardinality(Granted(k)) <= taken'[k]
               /\ taken'[k] <= Cardinality(Granted(k)) + failures'
    <3>1. taken'[k] = taken[k] + 1 \/ taken'[k] = taken[k]
      BY <1>3, <1>5
    <3>2. failures' = failures + 1
      BY <1>5 DEF Failure
    <3>3. Cardinality(Granted(k)) <= taken[k] /\ taken[k] <= Cardinality(Granted(k)) + failures
      BY DEF Paid
    <3> QED
      BY <3>1, <3>2, <3>3, <1>1, GrantedFinite
  <2> QED
    BY <1>5, <2>1 DEF Paid
<1>6. ASSUME UNCHANGED req PROVE \A k : Granted(k)' = Granted(k)
  BY <1>6 DEF Granted, Begun
<1>7. ASSUME NEW q \in Requests, NEW M \in Matched, Begin(q, M) PROVE Paid'
  <2>1. /\ req[q].pc = "new" /\ req'[q].granted = {}
        /\ \A p \in Requests \ {q} : req'[p] = req[p]
    BY <1>7, TypeParts DEF Begin
  <2> QED
    BY <1>2, <1>7, <2>1, GrantedStays DEF Begin
<1>8. ASSUME NEW q \in Requests, NEW pc, NEW todo, NEW refused, NEW unlogged,
             Advances(q, pc, todo, req[q].granted, refused, unlogged)
      PROVE  \A k : Granted(k)' = Granted(k)
  <2>1. /\ req[q].pc # "new" /\ req'[q].pc # "new" /\ req'[q].granted = req[q].granted
        /\ \A p \in Requests \ {q} : req'[p] = req[p]
    BY <1>8, Advanced
  <2> QED
    BY <2>1, GrantedStays
<1>9. \A q \in Requests : Requesting(req[q])
  BY Requestings
<1>10. ASSUME NEW q \in Requests, Answer(q) PROVE Paid'
  BY <1>2, <1>8, <1>9, <1>10, Moves DEF Answer
<1>11. ASSUME NEW q \in Requests, NEW r \in Rules,
              Refuse(q, r) \/ Push(q, r) \/ PushFails(q, r)
       PROVE  Paid'
  <2>1. UNCHANGED taken
    BY <1>11 DEF Refuse, Push, PushFails
  <2>2. \A k : Granted(k)' = Granted(k)
    <3>1. CASE Refuse(q, r)
      BY <3>1, <1>8, <1>9, Moves
    <3>2. CASE Push(q, r)
      BY <3>2, <1>8, <1>9, Moves
    <3>3. CASE PushFails(q, r)
      BY <3>3, <1>8, <1>9, Moves
    <3> QED
      BY <1>11, <3>1, <3>2, <3>3
  <2> QED
    BY <1>2, <2>1, <2>2
<1>12. ASSUME NEW q \in Requests, NEW r \in Rules, EvalFails(q, r) PROVE Paid'
  <2>1. \A k : Granted(k)' = Granted(k)
    BY <1>8, <1>9, <1>12, Moves
  <2>2. Failure /\ (Engine!Pay(KeysOf(q, r)) \/ UNCHANGED taken)
    BY <1>12 DEF EvalFails
  <2> QED
    BY <1>5, <2>1, <2>2
<1>13. ASSUME NEW q \in Requests, NEW r \in Rules, SendAgain(q, r) PROVE Paid'
  BY <1>5, <1>6, <1>13 DEF SendAgain
<1>14. CASE UNCHANGED <<req, taken>>
  BY <1>2, <1>6, <1>14
<1>15. ASSUME NEW q \in Requests, NEW last, AnswerFails(q, last) PROVE Paid'
  BY <1>2, <1>8, <1>9, <1>15, Moves DEF AnswerFails, PipelineBreaks
<1> QED
  BY <1>4, <1>7, <1>10, <1>11, <1>12, <1>13, <1>14, <1>15, Steps DEF Gain, PushAgain, AnswerAgain,
     PipelineBreaks

\* Nothing is taken at the start.
LEMMA PaidInit == Init => Paid
<1> SUFFICES ASSUME Init PROVE Paid
  OBVIOUS
<1>1. \A k : Granted(k) = {}
  BY DEF Init, Granted, Begun
<1>2. failures = 0 /\ \A k \in Keys : taken[k] = 0
  BY DEF Init
<1> QED
  BY <1>1, <1>2, FS_EmptySet DEF Paid

\* However many requests are decided at once, a key lets through no more of them
\* than it had places and time gave it, whatever replies were lost.
THEOREM CheckerAdmits == Spec => []NoOverAdmission
<1>1. TypeOK /\ Paid => NoOverAdmission
  <2> SUFFICES ASSUME TypeOK, Paid, NEW k \in Keys
               PROVE  Cardinality({q \in Admitted : \E r \in req[q].granted : k \in KeysOf(q, r)})
                          <= Capacity[k] + gained[k]
    BY DEF NoOverAdmission
  <2> DEFINE A == {q \in Admitted : \E r \in req[q].granted : k \in KeysOf(q, r)}
  <2>1. A \subseteq Granted(k)
    BY DEF Admitted, Answered, Granted, Begun
  <2>2. Cardinality(A) \in Nat /\ Cardinality(A) <= Cardinality(Granted(k))
    BY <2>1, GrantedFinite, FS_Subset, FS_CardinalityType
  <2>3. Cardinality(Granted(k)) <= taken[k] /\ Cardinality(Granted(k)) \in Nat
    BY GrantedFinite DEF Paid
  <2>4. room[k] \in Nat /\ taken[k] \in Nat /\ gained[k] \in Nat /\ Capacity[k] \in Nat
        /\ room[k] + taken[k] = Capacity[k] + gained[k]
    BY TypeParts, CheckerAssumption DEF Accounts
  <2> HIDE DEF A
  <2>5. taken[k] <= Capacity[k] + gained[k]
    BY <2>4
  <2> QED
    BY <2>2, <2>3, <2>4, <2>5 DEF A
<1>2. TypeOK /\ TypeOK' /\ Paid /\ [Next]_vars => Paid'
  BY PaidStep
<1> QED
  BY CheckerType, PaidInit, <1>1, <1>2, PTL DEF Spec

\* A request keeps what it was granted and refused, and only Refuse adds a refusal.
LEMMA RequestStep ==
    ASSUME TypeOK, [Next]_vars, NEW p \in Requests
    PROVE  \/ req'[p] = req[p]
           \/ req[p].pc = "new" /\ req'[p].pc = "deciding" /\ req'[p].refused = {}
           \/ /\ req[p].pc \in {"deciding", "pushing"} /\ req'[p].pc # "new"
              /\ req[p].granted \subseteq req'[p].granted
              /\ \/ req'[p].refused = req[p].refused
                 \/ \E r \in Rules : Refuse(p, r) /\ req'[p].refused = req[p].refused \cup {r}
              /\ req'[p].pc = "answered" => Answer(p)
<1> DEFINE Kept == req'[p] = req[p]
           Fresh == req[p].pc = "new" /\ req'[p].pc = "deciding" /\ req'[p].refused = {}
           Moved == /\ req[p].pc \in {"deciding", "pushing"} /\ req'[p].pc # "new"
                    /\ req[p].granted \subseteq req'[p].granted
                    /\ \/ req'[p].refused = req[p].refused
                       \/ \E r \in Rules : Refuse(p, r) /\ req'[p].refused = req[p].refused \cup {r}
                    /\ req'[p].pc = "answered" => Answer(p)
<1>1. CASE UNCHANGED req
  BY <1>1
<1>2. ASSUME NEW q \in Requests, NEW M \in Matched, Begin(q, M) PROVE Kept \/ Fresh
  BY <1>2, TypeParts DEF Begin
<1>3. \A q \in Requests : Requesting(req[q])
  BY Requestings
<1>4. ASSUME NEW q \in Requests, NEW pc, NEW todo, NEW granted, NEW refused, NEW unlogged,
             Advances(q, pc, todo, granted, refused, unlogged),
             req[q].pc \in {"deciding", "pushing"}, req[q].granted \subseteq granted,
             \/ refused = req[q].refused
             \/ \E r \in Rules : Refuse(q, r) /\ refused = req[q].refused \cup {r},
             pc = "answered" => Answer(q)
      PROVE  Kept \/ Moved
  <2>1. /\ req'[q].pc # "new" /\ req'[q].pc = pc
        /\ req'[q].granted = granted /\ req'[q].refused = refused
        /\ \A x \in Requests \ {q} : req'[x] = req[x]
    BY <1>4, Advanced
  <2>2. CASE p = q
    BY <1>4, <2>1, <2>2
  <2>3. CASE p # q
    BY <2>1, <2>3
  <2> QED
    BY <2>2, <2>3
<1>5. ASSUME NEW q \in Requests, NEW pc \in {"deciding", "failed"}, NEW todo, NEW unlogged,
             Advances(q, pc, todo, req[q].granted, req[q].refused, unlogged),
             req[q].pc \in {"deciding", "pushing"}
      PROVE  Kept \/ Moved
  BY <1>4, <1>5
<1>6. ASSUME NEW q \in Requests, Answer(q) PROVE Kept \/ Moved
  <2>1. Advances(q, "answered", req[q].todo, req[q].granted, req[q].refused, req[q].unlogged)
    BY <1>3, <1>6, Moves
  <2>2. req[q].pc = "deciding"
    BY <1>6 DEF Answer
  <2> HIDE DEF Kept, Moved
  <2> QED
    BY <1>4, <1>6, <2>1, <2>2
<1>7. ASSUME NEW q \in Requests, NEW r \in Rules, Grant(q, r) PROVE Kept \/ Moved
  <2>1. Advances(q, "deciding", req[q].todo \ {r}, req[q].granted \cup {r}, req[q].refused,
                 req[q].unlogged)
    BY <1>3, <1>7, Moves
  <2>2. req[q].pc = "deciding" /\ req[q].granted \subseteq req[q].granted \cup {r}
    BY <1>7 DEF Grant, At
  <2> HIDE DEF Kept, Moved
  <2> QED
    BY <1>4, <2>1, <2>2
<1>8. ASSUME NEW q \in Requests, NEW r \in Rules, Refuse(q, r) PROVE Kept \/ Moved
  <2>1. Advances(q, "pushing", req[q].todo \ {r}, req[q].granted, req[q].refused \cup {r},
                 req[q].unlogged)
    BY <1>3, <1>8, Moves
  <2>2. req[q].pc = "deciding"
    BY <1>8 DEF Refuse, At
  <2> HIDE DEF Kept, Moved
  <2> QED
    BY <1>4, <1>8, <2>1, <2>2
<1>9. ASSUME NEW q \in Requests, NEW r \in Rules,
             Push(q, r) \/ PushFails(q, r) \/ EvalFails(q, r)
      PROVE  Kept \/ Moved
  <2>1. req[q].pc \in {"deciding", "pushing"}
    BY <1>9 DEF Push, PushFails, Pushing, EvalFails, At
  <2> HIDE DEF Kept, Moved
  <2>2. CASE Push(q, r)
    BY <1>3, <1>5, <2>1, <2>2, Moves
  <2>3. CASE PushFails(q, r)
    BY <1>3, <1>5, <2>1, <2>3, Moves
  <2>4. CASE EvalFails(q, r)
    BY <1>3, <1>5, <2>1, <2>4, Moves
  <2> QED
    BY <1>9, <2>2, <2>3, <2>4
<1>10. ASSUME NEW q \in Requests, NEW last, AnswerFails(q, last) PROVE Kept \/ Moved
  <2>1. req[q].pc \in {"deciding", "pushing"}
    BY <1>10 DEF AnswerFails, PipelineBreaks
  <2> HIDE DEF Kept, Moved
  <2> QED
    BY <1>3, <1>5, <1>10, <2>1, Moves
<1> QED
  <2> HIDE DEF Kept, Fresh, Moved
  <2>1. Kept \/ Fresh \/ Moved
    <3>1. UNCHANGED req => Kept
      BY <1>1 DEF Kept
    <3> QED
      BY <3>1, <1>2, <1>6, <1>7, <1>8, <1>9, <1>10, Steps DEF Gain, SendAgain, PushAgain, AnswerAgain
  <2> QED
    BY <2>1 DEF Kept, Fresh, Moved

(***************************************************************************)
(* A rule that refuses has given its places away.                          *)
(***************************************************************************)
\* What was granted, and what failed, is never undone.
LEMMA Monotone ==
    ASSUME TypeOK, TypeOK', [Next]_vars, NEW k \in Keys
    PROVE  Cardinality(Granted(k)) + failures <= Cardinality(Granted(k)') + failures'
<1>1. ASSUME NEW p \in Granted(k) PROVE p \in Granted(k)'
  <2>1. p \in Requests /\ req[p].pc # "new"
    BY DEF Granted, Begun
  <2> QED
    BY <2>1, RequestStep DEF Granted, Begun
<1>2. Cardinality(Granted(k)) <= Cardinality(Granted(k)')
  BY <1>1, GrantedFiniteNext, FS_Subset
<1>3. failures \in Nat /\ failures' \in Nat /\ failures <= failures'
  BY FailuresStep, TypeParts, TypePartsNext, CheckerAssumption
<1>4. Cardinality(Granted(k)) \in Nat /\ Cardinality(Granted(k)') \in Nat
  BY GrantedFinite, GrantedFiniteNext
<1> QED
  BY <1>2, <1>3, <1>4

\* Every place of the key was given away.
Earned(k) == Cardinality(Granted(k)) + failures >= Capacity[k]

\* Places that were given away stay given away.
LEMMA EarnedStays ==
    ASSUME TypeOK, TypeOK', [Next]_vars, NEW k \in Keys, Earned(k)
    PROVE  Earned(k)'
<1>1. failures \in Nat /\ failures' \in Nat /\ Capacity[k] \in Nat
  BY TypeParts, TypePartsNext, CheckerAssumption
<1>2. Cardinality(Granted(k)) \in Nat /\ Cardinality(Granted(k)') \in Nat
  BY GrantedFinite, GrantedFiniteNext
<1> QED
  BY <1>1, <1>2, Monotone DEF Earned

\* The key for which a rule refuses has given its places away.
LEMMA RefusedForWant ==
    ASSUME TypeOK, Paid, NEW q \in Requests, NEW r \in Rules, Refuse(q, r)
    PROVE  \E k \in KeysOf(q, r) : Earned(k)
<1>1. PICK k \in KeysOf(q, r) : ~(room[k] > 0)
  BY DEF Refuse, HasRoom, Engine!HasPlace
<1>2. k \in Keys
  BY KeysOfType
<1>3. room[k] \in Nat /\ taken[k] \in Nat /\ gained[k] \in Nat /\ Capacity[k] \in Nat
      /\ room[k] + taken[k] = Capacity[k] + gained[k]
  BY <1>2, TypeParts, CheckerAssumption DEF Accounts
<1>4. taken[k] <= Cardinality(Granted(k)) + failures
  BY <1>2 DEF Paid
<1>5. Cardinality(Granted(k)) \in Nat /\ failures \in Nat
  BY GrantedFinite, TypeParts, CheckerAssumption
<1> QED
  BY <1>1, <1>3, <1>4, <1>5 DEF Earned

\* A rule wastes no place on a request it turns away.
THEOREM CheckerRefuses == Spec => []RefusalsEarned
<1>1. Init => RefusalsEarned
  BY DEF Init, RefusalsEarned, Begun
<1>2. TypeOK /\ TypeOK' /\ Paid /\ RefusalsEarned /\ [Next]_vars => RefusalsEarned'
  <2> SUFFICES ASSUME TypeOK, TypeOK', Paid, RefusalsEarned, [Next]_vars,
                      NEW q \in Requests, (req[q].pc # "new")', NEW r \in (req[q].refused)'
               PROVE  \E k \in KeysOf(q, r) : Earned(k)'
    BY DEF RefusalsEarned, Begun, Earned
  <2>1. r \in Rules
    <3>1. Requesting(req[q])'
      BY TypePartsNext
    <3>2. req'[q].pc # "new"
      OBVIOUS
    <3> QED
      BY <3>1, <3>2 DEF Requesting, Progress
  <2>2. PICK k \in KeysOf(q, r) : Earned(k)
    <3>1. CASE req[q].pc # "new" /\ r \in req[q].refused
      BY <3>1 DEF RefusalsEarned, Begun, Earned
    <3>2. CASE Refuse(q, r)
      BY <3>2, <2>1, RefusedForWant
    <3> QED
      BY <3>1, <3>2, RequestStep
  <2>3. k \in Keys
    BY <2>1, KeysOfType
  <2> QED
    BY <2>2, <2>3, EarnedStays
<1>3. TypeOK /\ TypeOK' /\ Paid /\ [Next]_vars => Paid'
  BY PaidStep
<1> QED
  BY CheckerType, PaidInit, <1>1, <1>2, <1>3, PTL DEF Spec

-----------------------------------------------------------------------------
(***************************************************************************)
(* Theorems about what Checker leaves behind for the dashboards: the       *)
(* counters of the curves (Ticks), and the deny logs (Recorded).           *)
(***************************************************************************)

(***************************************************************************)
(* The curves.                                                             *)
(***************************************************************************)
\* The answered requests that the rule granted.
Allowed(r) == {q \in Answered : r \in req[q].granted}
\* And those it refused.
Denied(r) == {q \in Answered : r \in req[q].refused}

\* The counters, against the requests that were answered.
Ticks ==
    \A r \in Rules :
        /\ counts[r].allow \in Cardinality(Allowed(r)) .. Cardinality(Allowed(r)) + failures
        /\ counts[r].deny \in Cardinality(Denied(r)) .. Cardinality(Denied(r)) + failures

\* The requests are finitely many.
LEMMA CurvesFinite ==
    ASSUME NEW r
    PROVE  /\ IsFiniteSet(Allowed(r)) /\ Cardinality(Allowed(r)) \in Nat
           /\ IsFiniteSet(Denied(r)) /\ Cardinality(Denied(r)) \in Nat
<1>1. /\ Allowed(r) \in SUBSET Requests /\ Denied(r) \in SUBSET Requests
      /\ IsFiniteSet(Requests)
  BY CheckerAssumption DEF Allowed, Denied, Answered
<1> QED
  BY <1>1, FS_Subset, FS_CardinalityType

\* Only an answer changes who was answered.
LEMMA CurvesStay ==
    ASSUME TypeOK, [Next]_vars, \A q \in Requests : ~Answer(q), NEW r
    PROVE  Allowed(r)' = Allowed(r) /\ Denied(r)' = Denied(r)
<1>1. ASSUME NEW q \in Requests
      PROVE  /\ req'[q].pc = "answered" <=> req[q].pc = "answered"
             /\ req[q].pc = "answered" => req'[q] = req[q]
  BY RequestStep
<1> QED
  BY <1>1 DEF Allowed, Denied, Answered

\* An answer adds its request to the rules that granted or refused it.
LEMMA CurvesGrow ==
    ASSUME TypeOK, NEW q \in Requests, Answer(q), NEW r
    PROVE  /\ Allowed(r)' = IF r \in req[q].granted THEN Allowed(r) \cup {q} ELSE Allowed(r)
           /\ Denied(r)' = IF r \in req[q].refused THEN Denied(r) \cup {q} ELSE Denied(r)
           /\ q \notin Allowed(r) /\ q \notin Denied(r)
<1>1. Advances(q, "answered", req[q].todo, req[q].granted, req[q].refused, req[q].unlogged)
  BY Moves, Requestings
<1>2. /\ req'[q].pc = "answered" /\ req'[q].granted = req[q].granted
      /\ req'[q].refused = req[q].refused
      /\ \A p \in Requests \ {q} : req'[p] = req[p]
  BY <1>1, Advanced
<1>3. req[q].pc = "deciding"
  BY DEF Answer
<1>4. ASSUME NEW p \in Requests
      PROVE  /\ p \in Allowed(r)' <=> p \in Allowed(r) \/ (p = q /\ r \in req[q].granted)
             /\ p \in Denied(r)' <=> p \in Denied(r) \/ (p = q /\ r \in req[q].refused)
  BY <1>2, <1>3 DEF Allowed, Denied, Answered
<1>5. /\ Allowed(r) \subseteq Requests /\ Allowed(r)' \subseteq Requests
      /\ Denied(r) \subseteq Requests /\ Denied(r)' \subseteq Requests
  BY DEF Allowed, Denied, Answered
<1>6. q \notin Allowed(r) /\ q \notin Denied(r)
  BY <1>3 DEF Allowed, Denied, Answered
<1> QED
  BY <1>4, <1>5, <1>6

\* A pipeline counts a request as it is answered, or is a failure.
LEMMA TicksStep ==
    ASSUME TypeOK, TypeOK', Ticks, [Next]_vars
    PROVE  Ticks'
<1>1. /\ failures \in Nat /\ failures' \in Nat /\ failures <= failures'
      /\ \A r \in Rules : counts[r].allow \in Nat /\ counts[r].deny \in Nat
  BY FailuresStep, TypeParts, TypePartsNext, CheckerAssumption DEF Counters
<1>2. \A r : /\ Cardinality(Allowed(r)) \in Nat /\ Cardinality(Denied(r)) \in Nat
             /\ IsFiniteSet(Allowed(r)) /\ IsFiniteSet(Denied(r))
  BY CurvesFinite
<1>3. ASSUME NEW q, NEW R, NEW r \in Rules, CountTicks(q, R)
      PROVE  counts'[r] = IF r \in R
                          THEN [allow |-> counts[r].allow + Ticked(q, r).allow,
                                deny  |-> counts[r].deny + Ticked(q, r).deny]
                          ELSE counts[r]
  BY <1>3 DEF CountTicks
<1>4. \A c, n, f, g \in Nat : c \in n .. n + f /\ f <= g => c \in n .. n + g
  OBVIOUS
<1>5. CASE UNCHANGED counts /\ \A q \in Requests : ~Answer(q)
  <2>1. ASSUME NEW r \in Rules
        PROVE  /\ counts[r].allow \in Cardinality(Allowed(r)) .. Cardinality(Allowed(r)) + failures'
               /\ counts[r].deny \in Cardinality(Denied(r)) .. Cardinality(Denied(r)) + failures'
    BY <1>1, <1>2, <1>4 DEF Ticks
  <2>2. \A r : Allowed(r)' = Allowed(r) /\ Denied(r)' = Denied(r)
    BY <1>5, CurvesStay
  <2> QED
    BY <1>5, <2>1, <2>2 DEF Ticks
<1>6. ASSUME NEW q \in Requests, NEW last, PipelineBreaks(q, last),
             \A p \in Requests : ~Answer(p)
      PROVE  Ticks'
  <2>1. \A r : Allowed(r)' = Allowed(r) /\ Denied(r)' = Denied(r)
    BY <1>6, CurvesStay
  <2>2. ASSUME NEW r \in Rules
        PROVE  /\ counts'[r].allow = counts[r].allow \/ counts'[r].allow = counts[r].allow + 1
               /\ counts'[r].deny = counts[r].deny \/ counts'[r].deny = counts[r].deny + 1
    <3>1. /\ Ticked(q, r).allow = 0 \/ Ticked(q, r).allow = 1
          /\ Ticked(q, r).deny = 0 \/ Ticked(q, r).deny = 1
      BY DEF Ticked
    <3>2. CountTicks(q, {s \in Rules : s <= last})
      BY <1>6 DEF PipelineBreaks
    <3>3. CASE r \in {s \in Rules : s <= last}
      <4>1. counts'[r] = [allow |-> counts[r].allow + Ticked(q, r).allow,
                          deny  |-> counts[r].deny + Ticked(q, r).deny]
        BY <1>3, <3>2, <3>3, Zenon
      <4>2. /\ counts'[r].allow = counts[r].allow + Ticked(q, r).allow
            /\ counts'[r].deny = counts[r].deny + Ticked(q, r).deny
        BY <4>1
      <4> QED
        BY <1>1, <3>1, <4>2
    <3>4. CASE r \notin {s \in Rules : s <= last}
      <4>1. counts'[r] = counts[r]
        BY <1>3, <3>2, <3>4, Zenon
      <4> QED
        BY <4>1
    <3> QED
      BY <3>3, <3>4
  <2>3. failures' = failures + 1
    BY <1>6 DEF PipelineBreaks, Failure
  <2>4. \A c, n, f \in Nat : c \in n .. n + f => c \in n .. n + (f + 1) /\ c + 1 \in n .. n + (f + 1)
    OBVIOUS
  <2>5. ASSUME NEW r \in Rules
        PROVE  /\ counts'[r].allow \in Cardinality(Allowed(r)) .. Cardinality(Allowed(r)) + failures'
               /\ counts'[r].deny \in Cardinality(Denied(r)) .. Cardinality(Denied(r)) + failures'
    BY <2>2, <2>3, <2>4, <1>1, <1>2 DEF Ticks
  <2> QED
    BY <2>1, <2>5 DEF Ticks
<1>7. ASSUME NEW q \in Requests, Answer(q) PROVE Ticks'
  <2>1. CountTicks(q, Rules) /\ failures' = failures
    BY <1>7 DEF Answer
  <2>2. ASSUME NEW r \in Rules
        PROVE  /\ counts'[r].allow - counts[r].allow
                      = Cardinality(Allowed(r)') - Cardinality(Allowed(r))
               /\ counts'[r].deny - counts[r].deny
                      = Cardinality(Denied(r)') - Cardinality(Denied(r))
               /\ Cardinality(Allowed(r)') \in Nat /\ Cardinality(Denied(r)') \in Nat
               /\ counts'[r].allow \in Nat /\ counts'[r].deny \in Nat
    <3>1. /\ counts'[r].allow = counts[r].allow + (IF r \in req[q].granted THEN 1 ELSE 0)
          /\ counts'[r].deny = counts[r].deny + (IF r \in req[q].refused THEN 1 ELSE 0)
      <4>1. counts'[r] = [allow |-> counts[r].allow + Ticked(q, r).allow,
                          deny  |-> counts[r].deny + Ticked(q, r).deny]
        BY <1>3, <2>1
      <4>2. /\ counts'[r].allow = counts[r].allow + Ticked(q, r).allow
            /\ counts'[r].deny = counts[r].deny + Ticked(q, r).deny
        BY <4>1
      <4> QED
        BY <4>2 DEF Ticked
    <3>2. Cardinality(Allowed(r)')
              = Cardinality(Allowed(r)) + (IF r \in req[q].granted THEN 1 ELSE 0)
      <4>1. /\ Allowed(r)' = IF r \in req[q].granted THEN Allowed(r) \cup {q} ELSE Allowed(r)
            /\ q \notin Allowed(r)
        BY <1>7, CurvesGrow
      <4>2. Cardinality(Allowed(r) \cup {q}) = Cardinality(Allowed(r)) + 1
        BY <4>1, <1>2, FS_AddElement
      <4>3. CASE r \in req[q].granted
        BY <4>1, <4>2, <4>3
      <4>4. CASE r \notin req[q].granted
        BY <4>1, <4>4, <1>2
      <4> QED
        BY <4>3, <4>4
    <3>3. Cardinality(Denied(r)')
              = Cardinality(Denied(r)) + (IF r \in req[q].refused THEN 1 ELSE 0)
      <4>1. /\ Denied(r)' = IF r \in req[q].refused THEN Denied(r) \cup {q} ELSE Denied(r)
            /\ q \notin Denied(r)
        BY <1>7, CurvesGrow
      <4>2. Cardinality(Denied(r) \cup {q}) = Cardinality(Denied(r)) + 1
        BY <4>1, <1>2, FS_AddElement
      <4>3. CASE r \in req[q].refused
        BY <4>1, <4>2, <4>3
      <4>4. CASE r \notin req[q].refused
        BY <4>1, <4>4, <1>2
      <4> QED
        BY <4>3, <4>4
    <3> QED
      BY <1>1, <1>2, <3>1, <3>2, <3>3
  <2>3. \A c, n, d, m, f \in Nat : c \in n .. n + f /\ d - c = m - n => d \in m .. m + f
    OBVIOUS
  <2>4. ASSUME NEW r \in Rules
        PROVE  /\ counts'[r].allow
                      \in Cardinality(Allowed(r)') .. Cardinality(Allowed(r)') + failures'
               /\ counts'[r].deny
                      \in Cardinality(Denied(r)') .. Cardinality(Denied(r)') + failures'
    BY <2>1, <2>2, <2>3, <1>1, <1>2 DEF Ticks
  <2> QED
    BY <2>4 DEF Ticks
<1> QED
  BY <1>5, <1>6, <1>7, Steps DEF Gain, Begin, Grant, Refuse, Push, SendAgain, EvalFails,
     PushAgain, PushFails, AnswerAgain, AnswerFails

\* The curves of a rule count the answers that were given, each of them once, but
\* for a pipeline that broke.
THEOREM CheckerCurves == Spec => []CurvesHonest
<1>1. Init => Ticks
  <2> SUFFICES ASSUME Init, NEW r \in Rules
               PROVE  /\ counts[r].allow
                             \in Cardinality(Allowed(r)) .. Cardinality(Allowed(r)) + failures
                      /\ counts[r].deny
                             \in Cardinality(Denied(r)) .. Cardinality(Denied(r)) + failures
    BY DEF Ticks
  <2>1. Allowed(r) = {} /\ Denied(r) = {}
    BY DEF Init, Allowed, Denied, Answered
  <2>2. counts[r].allow = 0 /\ counts[r].deny = 0 /\ failures = 0
    BY DEF Init
  <2> QED
    BY <2>1, <2>2, FS_EmptySet
<1>2. TypeOK /\ TypeOK' /\ Ticks /\ [Next]_vars => Ticks'
  BY TicksStep
<1>3. TypeOK /\ Ticks => CurvesHonest
  <2> SUFFICES ASSUME TypeOK, Ticks, NEW r \in Rules
               PROVE  /\ counts[r].allow \in Decided(r, Answered).allow
                                                 .. Decided(r, Begun).allow + failures
                      /\ counts[r].deny \in Decided(r, Answered).deny
                                                 .. Decided(r, Begun).deny + failures
    BY DEF CurvesHonest
  <2> DEFINE A == {q \in Begun : r \in req[q].granted}
             D == {q \in Begun : r \in req[q].refused}
  <2>1. /\ Decided(r, Answered).allow = Cardinality(Allowed(r))
        /\ Decided(r, Answered).deny = Cardinality(Denied(r))
        /\ Decided(r, Begun).allow = Cardinality(A) /\ Decided(r, Begun).deny = Cardinality(D)
    BY DEF Decided, Allowed, Denied
  <2>2. /\ A \in SUBSET Requests /\ D \in SUBSET Requests
        /\ Allowed(r) \in SUBSET A /\ Denied(r) \in SUBSET D
    BY DEF Begun, Answered, Allowed, Denied
  <2> HIDE DEF A, D
  <2>3. IsFiniteSet(A) /\ IsFiniteSet(D)
    BY <2>2, CheckerAssumption, FS_Subset
  <2>4. /\ Cardinality(Allowed(r)) <= Cardinality(A) /\ Cardinality(A) \in Nat
        /\ Cardinality(Denied(r)) <= Cardinality(D) /\ Cardinality(D) \in Nat
    BY <2>2, <2>3, FS_Subset, FS_CardinalityType
  <2>5. \A c, n, m, f \in Nat : c \in n .. n + f /\ n <= m => c \in n .. m + f
    OBVIOUS
  <2>6. failures \in Nat /\ counts[r].allow \in Nat /\ counts[r].deny \in Nat
    BY TypeParts, CheckerAssumption DEF Counters
  <2> QED
    BY <2>1, <2>4, <2>5, <2>6, CurvesFinite DEF Ticks
<1> QED
  BY CheckerType, <1>1, <1>2, <1>3, PTL DEF Spec

(***************************************************************************)
(* The deny logs.                                                          *)
(***************************************************************************)
\* The log of a rule is the newest end of what was pushed to it.
Newest == \A r \in Rules : Holds(denyLog[r], pushes[r])

\* A push keeps it so.
LEMMA NewestStep ==
    ASSUME TypeOK, Newest, [Next]_vars
    PROVE  Newest'
<1>1. CASE UNCHANGED <<denyLog, pushes>>
  BY <1>1 DEF Newest
<1>2. ASSUME NEW q \in Requests, NEW r \in Rules,
             denyLog' = [denyLog EXCEPT ![r] = Longest(<<q>> \o @)],
             pushes' = [pushes EXCEPT ![r] = <<q>> \o @]
      PROVE  Newest'
  <2>1. Holds(Longest(<<q>> \o denyLog[r]), <<q>> \o pushes[r])
    BY LongestLog DEF Newest
  <2>2. /\ denyLog'[r] = Longest(<<q>> \o denyLog[r]) /\ pushes'[r] = <<q>> \o pushes[r]
        /\ \A s \in Rules \ {r} : denyLog'[s] = denyLog[s] /\ pushes'[s] = pushes[s]
    BY <1>2, TypeParts DEF Logs
  <2>3. ASSUME NEW s \in Rules PROVE Holds(denyLog'[s], pushes'[s])
    BY <2>1, <2>2, Zenon DEF Newest
  <2> QED
    BY <2>3 DEF Newest
<1> QED
  BY <1>1, <1>2
  DEF Next, Decide, vars, Begin, Grant, Refuse, Push, Answer, SendAgain, EvalFails, PushAgain,
      PushFails, AnswerAgain, AnswerFails, PipelineBreaks, Gain

\* The request has been pushed to the log of the rule.
Pushed(q, r) == \E n \in DOMAIN pushes[r] : pushes[r][n] = q

\* A request refuses rules in the order of their ids, and each refusal has
\* been pushed to the log of its rule, or is being pushed, or its push has failed.
Recorded(q) ==
    /\ \A s \in req[q].refused, t \in req[q].todo : s < t
    /\ \A r \in req[q].refused \ req[q].unlogged : Pushed(q, r) \/ Pushing(q, r)

\* This is so of every request that a process has begun.
AllRecorded == \A q \in Begun : Recorded(q)

\* What was pushed was pushed for ever.
LEMMA PushedStays ==
    ASSUME TypeOK, [Next]_vars, NEW q \in Requests, NEW r \in Rules, Pushed(q, r)
    PROVE  Pushed(q, r)'
<1>1. CASE UNCHANGED pushes
  BY <1>1 DEF Pushed
<1>2. ASSUME NEW p \in Requests, NEW s \in Rules, pushes' = [pushes EXCEPT ![s] = <<p>> \o @]
      PROVE  Pushed(q, r)'
  <2>1. /\ pushes[r] \in Seq(Requests)
        /\ pushes'[r] = IF r = s THEN <<p>> \o pushes[r] ELSE pushes[r]
    BY <1>2, TypeParts DEF Logs
  <2>2. CASE r # s
    BY <2>1, <2>2 DEF Pushed
  <2>3. CASE r = s
    <3>1. PICK n \in DOMAIN pushes[r] : pushes[r][n] = q
      BY DEF Pushed
    <3>2. n + 1 \in DOMAIN (<<p>> \o pushes[r]) /\ (<<p>> \o pushes[r])[n + 1] = q
      BY <2>1, <3>1
    <3> QED
      BY <2>1, <2>3, <3>2 DEF Pushed
  <2> QED
    BY <2>2, <2>3
<1> QED
  BY <1>1, <1>2
  DEF Next, Decide, vars, Begin, Grant, Refuse, Push, Answer, SendAgain, EvalFails, PushAgain,
      PushFails, AnswerAgain, AnswerFails, PipelineBreaks, Gain

\* A push pushes.
LEMMA PushPushes ==
    ASSUME TypeOK, NEW q \in Requests, NEW r \in Rules, Push(q, r)
    PROVE  Pushed(q, r)'
<1>1. pushes[r] \in Seq(Requests) /\ pushes'[r] = <<q>> \o pushes[r]
  BY TypeParts DEF Logs, Push
<1>2. 1 \in DOMAIN pushes'[r] /\ pushes'[r][1] = q
  BY <1>1
<1> QED
  BY <1>2 DEF Pushed

\* A refusal leaves the state of being pushed by a push, or its failure, only.
LEMMA RecordedStep ==
    ASSUME TypeOK, AllRecorded, [Next]_vars
    PROVE  AllRecorded'
<1>1. \A q \in Requests : Requesting(req[q])
  BY Requestings
<1>2. ASSUME NEW q \in Requests, req[q].pc # "new"
      PROVE  req[q].refused \subseteq Rules /\ req[q].todo \subseteq Rules
  BY <1>1, <1>2 DEF Requesting, Progress
<1>3. ASSUME NEW q \in Requests, req[q].pc # "new", req'[q] = req[q] PROVE Recorded(q)'
  <2>1. Recorded(q)
    BY <1>3 DEF AllRecorded, Begun
  <2> QED
    BY <1>2, <1>3, <2>1, PushedStays DEF Recorded, Pushing
<1>4. ASSUME NEW q \in Requests, \A p \in Requests \ {q} : req'[p] = req[p], Recorded(q)'
      PROVE  AllRecorded'
  BY <1>3, <1>4 DEF AllRecorded, Begun
<1>5. CASE UNCHANGED req
  BY <1>3, <1>5 DEF AllRecorded, Begun
<1>6. ASSUME NEW q \in Requests, NEW M \in Matched, Begin(q, M) PROVE AllRecorded'
  <2>1. /\ req'[q].refused = {}
        /\ \A p \in Requests \ {q} : req'[p] = req[p]
    BY <1>6, TypeParts DEF Begin
  <2>2. Recorded(q)'
    BY <2>1 DEF Recorded
  <2> QED
    BY <1>4, <2>1, <2>2
\* A step of q that refuses nothing: what was being pushed has been, or has failed.
<1>7. ASSUME NEW q \in Requests, NEW pc, NEW todo, NEW granted, NEW unlogged,
             Advances(q, pc, todo, granted, req[q].refused, unlogged),
             todo \subseteq req[q].todo, req[q].unlogged \subseteq unlogged,
             \A r \in Rules : Pushing(q, r) => r \in unlogged \/ Pushed(q, r)'
      PROVE  AllRecorded'
  <2>1. /\ req[q].pc # "new" /\ req'[q].todo = todo /\ req'[q].refused = req[q].refused
        /\ req'[q].unlogged = unlogged
        /\ \A p \in Requests \ {q} : req'[p] = req[p]
    BY <1>7, Advanced
  <2>2. Recorded(q)
    BY <2>1 DEF AllRecorded, Begun
  <2>3. ASSUME NEW r \in req[q].refused \ unlogged PROVE Pushed(q, r)'
    BY <1>2, <1>7, <2>1, <2>2, <2>3, PushedStays DEF Recorded
  <2>4. Recorded(q)'
    BY <1>7, <2>1, <2>2, <2>3 DEF Recorded
  <2> QED
    BY <1>4, <2>1, <2>4
<1>8. ASSUME NEW q \in Requests, req[q].pc = "deciding", NEW r PROVE ~Pushing(q, r)
  BY <1>8 DEF Pushing
<1>9. ASSUME NEW q \in Requests, Answer(q) PROVE AllRecorded'
  <2>1. Advances(q, "answered", req[q].todo, req[q].granted, req[q].refused, req[q].unlogged)
    BY <1>1, <1>9, Moves
  <2>2. \A r : ~Pushing(q, r)
    BY <1>8, <1>9 DEF Answer
  <2> QED
    BY <1>7, <2>1, <2>2
<1>10. ASSUME NEW q \in Requests, NEW r \in Rules, Grant(q, r) PROVE AllRecorded'
  <2>1. Advances(q, "deciding", req[q].todo \ {r}, req[q].granted \cup {r}, req[q].refused,
                 req[q].unlogged)
    BY <1>1, <1>10, Moves
  <2>2. \A s : ~Pushing(q, s)
    BY <1>8, <1>10 DEF Grant, At
  <2>3. req[q].todo \ {r} \subseteq req[q].todo
    OBVIOUS
  <2> QED
    BY <1>7, <2>1, <2>2, <2>3
<1>11. ASSUME NEW q \in Requests, NEW r, (EvalFails(q, r) /\ r \in Rules) \/ AnswerFails(q, r)
       PROVE  AllRecorded'
  <2>1. Advances(q, "failed", req[q].todo, req[q].granted, req[q].refused, req[q].unlogged)
    BY <1>1, <1>11, Moves
  <2>2. \A s : ~Pushing(q, s)
    BY <1>8, <1>11 DEF EvalFails, At, AnswerFails, PipelineBreaks
  <2> QED
    BY <1>7, <2>1, <2>2
<1>12. ASSUME NEW q \in Requests, NEW r \in Rules, NEW s \in Rules, Pushing(q, r), Pushing(q, s)
       PROVE  r = s
  BY <1>12, CheckerAssumption DEF Pushing
<1>13. ASSUME NEW q \in Requests, NEW r \in Rules, Push(q, r) PROVE AllRecorded'
  <2>1. Advances(q, "deciding", req[q].todo, req[q].granted, req[q].refused, req[q].unlogged)
    BY <1>1, <1>13, Moves
  <2>2. \A s \in Rules : Pushing(q, s) => Pushed(q, s)'
    BY <1>12, <1>13, PushPushes DEF Push
  <2> QED
    BY <1>7, <2>1, <2>2
<1>14. ASSUME NEW q \in Requests, NEW r \in Rules, PushFails(q, r) PROVE AllRecorded'
  <2>1. Advances(q, "deciding", req[q].todo, req[q].granted, req[q].refused,
                 req[q].unlogged \cup {r})
    BY <1>1, <1>14, Moves
  <2>2. \A s \in Rules : Pushing(q, s) => s \in req[q].unlogged \cup {r}
    BY <1>12, <1>14 DEF PushFails
  <2>3. req[q].unlogged \subseteq req[q].unlogged \cup {r}
    OBVIOUS
  <2> QED
    BY <1>7, <2>1, <2>2, <2>3
<1>15. ASSUME NEW q \in Requests, NEW r \in Rules, Refuse(q, r) PROVE AllRecorded'
  <2>1. Advances(q, "pushing", req[q].todo \ {r}, req[q].granted, req[q].refused \cup {r},
                 req[q].unlogged)
    BY <1>1, <1>15, Moves
  <2>2. /\ req[q].pc # "new" /\ req'[q].pc = "pushing" /\ req'[q].todo = req[q].todo \ {r}
        /\ req'[q].refused = req[q].refused \cup {r} /\ req'[q].unlogged = req[q].unlogged
        /\ \A p \in Requests \ {q} : req'[p] = req[p]
    BY <2>1, Advanced
  <2>3. Recorded(q)
    BY <2>2 DEF AllRecorded, Begun
  <2>4. req[q].pc = "deciding" /\ r \in req[q].todo /\ \A t \in req[q].todo : r <= t
    BY <1>15 DEF Refuse, At
  <2>5. req[q].refused \subseteq Nat /\ req[q].todo \subseteq Nat
    BY <1>2, <2>2, CheckerAssumption
  <2>6. \A s \in req[q].refused : s < r
    BY <2>3, <2>4 DEF Recorded
  <2>7. ASSUME NEW s \in req'[q].refused, NEW t \in req'[q].todo PROVE s < t
    <3>1. t \in req[q].todo /\ t # r /\ r <= t /\ t \in Nat /\ r \in Nat
      BY <2>2, <2>4, <2>5
    <3>2. s = r \/ (s \in req[q].refused /\ s < t)
      BY <2>2, <2>3, <3>1 DEF Recorded
    <3> QED
      BY <3>1, <3>2
  <2>8. Pushing(q, r)'
    BY <2>2, <2>4, <2>5, <2>6 DEF Pushing
  <2>9. ASSUME NEW s \in req[q].refused \ req[q].unlogged PROVE Pushed(q, s)'
    BY <1>2, <1>8, <2>2, <2>3, <2>4, PushedStays DEF Recorded
  <2>10. Recorded(q)'
    BY <2>2, <2>7, <2>8, <2>9 DEF Recorded
  <2> QED
    BY <1>4, <2>2, <2>10
<1> QED
  BY <1>5, <1>6, <1>9, <1>10, <1>11, <1>13, <1>14, <1>15, Steps
  DEF Gain, SendAgain, PushAgain, AnswerAgain

\* Whoever was answered 429 is found in the deny log of every rule that refused it,
\* unless its push failed or as many as the log holds were pushed to it later.
THEOREM CheckerLogs == Spec => []RefusalsLogged
<1>1. Init => AllRecorded /\ Newest
  BY CheckerAssumption DEF Init, AllRecorded, Begun, Newest, Holds
<1>2. TypeOK /\ AllRecorded /\ Newest /\ [Next]_vars => AllRecorded' /\ Newest'
  BY RecordedStep, NewestStep
<1>3. TypeOK /\ AllRecorded /\ Newest => RefusalsLogged
  <2> SUFFICES ASSUME TypeOK, AllRecorded, Newest, NEW q \in Answered,
                      NEW r \in req[q].refused \ req[q].unlogged
               PROVE  \/ \E n \in DOMAIN denyLog[r] : denyLog[r][n] = q
                      \/ PushesOf(q, r) # {} /\ \A n \in PushesOf(q, r) : n > DenyLogLen
    BY DEF RefusalsLogged
  <2>1. Pushed(q, r)
    BY DEF AllRecorded, Recorded, Answered, Begun, Pushing
  <2>2. r \in Rules
    BY Requestings DEF Requesting, Progress, Answered
  <2>3. PushesOf(q, r) # {}
    BY <2>1 DEF Pushed, PushesOf
  <2>4. ASSUME NEW n \in PushesOf(q, r), ~(n > DenyLogLen)
        PROVE  n \in DOMAIN denyLog[r] /\ denyLog[r][n] = q
    <3>1. Holds(denyLog[r], pushes[r])
      BY <2>2 DEF Newest
    <3>2. n \in 1 .. Len(pushes[r]) /\ pushes[r][n] = q
      BY <3>1 DEF PushesOf, Holds
    <3>3. DenyLogLen \in Nat /\ Len(pushes[r]) \in Nat /\ Len(denyLog[r]) \in Nat
      BY <3>1, CheckerAssumption DEF Holds
    <3>4. n \in 1 .. Len(denyLog[r])
      BY <2>4, <3>1, <3>2, <3>3 DEF Holds
    <3> QED
      BY <3>1, <3>2, <3>4 DEF Holds
  <2> QED
    BY <2>3, <2>4
<1> QED
  BY CheckerType, <1>1, <1>2, <1>3, PTL DEF Spec
=============================================================================
