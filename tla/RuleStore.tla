----------------------------- MODULE RuleStore -----------------------------
(***************************************************************************)
(* store/rule_store.go on several gateway instances: the rules in          *)
(* PostgreSQL, the copy each instance holds in memory, and the Redis       *)
(* channel rules:changed that tells the instances of changes.              *)
(*                                                                         *)
(* A change is a request of the API: Create, Update or Delete.  Each runs  *)
(* once, on some instance, and is the four steps of the code: it looks at  *)
(* the copy, writes PostgreSQL, writes the copy, publishes.  The handler   *)
(* of SubscribeHotReload takes the messages one by one; for a reload it    *)
(* reads PostgreSQL and, in a later step, replaces the copy.               *)
(*                                                                         *)
(* What a rule says is only the identity of the request that wrote it.     *)
(* missed is an observer: an instance has not been told of some change     *)
(* that is in PostgreSQL, and nothing under way will tell it.              *)
(***************************************************************************)
EXTENDS Naturals, Sequences

CONSTANTS
    Instances,      \* the gateway instances
    Ids,            \* the rules' ids
    Requests,       \* the changes that may be asked for
    Existing,       \* the rules stored at the start
    Fresh,          \* the ids Create may draw
    Updatable,      \* the rules Update may be called for
    Deletable,      \* the rules Delete may be called for
    Starting,       \* the instances that are not running at the start
    ChannelSize,    \* the messages go-redis holds for the handler
    MaxCrashes,     \* bound: instances that crash
    MaxFailures     \* bound: requests cut short, subscriptions cut, reloads failed,
                    \* messages sent twice or dropped

NoRule == "no rule"
Original == "original"
Idle == <<>>
Rules == [Ids -> Requests \cup {Original, NoRule}]

ASSUME StoreAssumption ==
    /\ Requests \cap {Original, NoRule} = {}
    /\ Existing \cup Fresh \cup Updatable \cup Deletable \subseteq Ids
    /\ Existing \cap Fresh = {}
    /\ Starting \subseteq Instances
    /\ ChannelSize \in Nat /\ MaxCrashes \in Nat /\ MaxFailures \in Nat

VARIABLES
    pg,         \* the table rules
    cache,      \* s.rules of each instance
    phase,      \* "down", "loaded" (New has returned), "up" (subscribed), "cut"
    inbox,      \* the messages delivered to each instance and not yet handled
    load,       \* <<what the handler's loadAll has read>>, Idle if none is under way
    req,        \* the requests; sent: the message of the request has been delivered
    missed,
    crashes, failures
vars == <<pg, cache, phase, inbox, load, req, missed, crashes, failures>>

Reload == [type |-> "reload"]
Deletion(id) == [type |-> "delete", id |-> id]

\* The steps of a request that has got past its checks.
Underway == {"checked", "stored", "cached"}

Serving(i) == phase[i] # "down"

Init ==
    /\ pg = [id \in Ids |-> IF id \in Existing THEN Original ELSE NoRule]
    /\ phase = [i \in Instances |-> IF i \in Starting THEN "down" ELSE "up"]
    /\ cache = [i \in Instances |-> IF i \in Starting
                                    THEN [id \in Ids |-> NoRule] ELSE pg]
    /\ inbox = [i \in Instances |-> <<>>]
    /\ load = [i \in Instances |-> Idle]
    /\ req = [p \in Requests |-> [pc |-> "new"]]
    /\ missed = [i \in Instances |-> FALSE]
    /\ crashes = 0 /\ failures = 0

-----------------------------------------------------------------------------
(***************************************************************************)
(* A request.                                                              *)
(***************************************************************************)
\* Mutation: the copy is written at once, PostgreSQL afterwards.
BeginCaching(p, i, kind, id) ==
    /\ Serving(i) /\ req[p].pc = "new"
    /\ req' = [req EXCEPT ![p] = [pc |-> "checked", kind |-> kind, inst |-> i, id |-> id,
                                  sent |-> FALSE]]
    /\ cache' = [cache EXCEPT ![i][id] = IF kind = "delete" THEN NoRule ELSE p]
    /\ UNCHANGED <<pg, phase, inbox, load, missed, crashes, failures>>

Begin(p, i, kind, id) ==
    /\ Serving(i) /\ req[p].pc = "new"
    /\ req' = [req EXCEPT ![p] = [pc |-> "checked", kind |-> kind, inst |-> i, id |-> id,
                                  sent |-> FALSE]]
    /\ UNCHANGED <<pg, cache, phase, inbox, load, missed, crashes, failures>>

\* uuid.NewString: an id no request has drawn.
Create(p, i, id) ==
    /\ id \in Fresh
    /\ \A q \in Requests : req[q].pc # "new" => req[q].id # id
    /\ Begin(p, i, "create", id)

\* Update and Delete look the rule up in the copy.
Update(p, i, id) ==
    /\ id \in Updatable /\ cache[i][id] # NoRule
    /\ Begin(p, i, "update", id)

Delete(p, i, id) ==
    /\ id \in Deletable /\ cache[i][id] # NoRule
    /\ Begin(p, i, "delete", id)

\* What the request leaves of its rule.
Written(p) == IF req[p].kind = "delete" THEN NoRule ELSE p

Step(p, from, to) ==
    /\ req[p].pc = from
    /\ req' = [req EXCEPT ![p].pc = to]

\* upsert, or the DELETE.
Store(p) ==
    /\ Step(p, "checked", "stored")
    /\ pg' = [pg EXCEPT ![req[p].id] = Written(p)]
    /\ UNCHANGED <<cache, phase, inbox, load, missed, crashes, failures>>

\* The copy of the instance that serves the request.
Cache(p) ==
    /\ Step(p, "stored", "cached")
    /\ cache' = [cache EXCEPT ![req[p].inst][req[p].id] = Written(p)]
    /\ UNCHANGED <<pg, phase, inbox, load, missed, crashes, failures>>

Send(p, to) ==
    /\ req[p].pc = "cached"
    /\ req' = [req EXCEPT ![p].pc = to, ![p].sent = TRUE]

\* The message of the request.
Message(p) == IF req[p].kind = "delete" THEN Deletion(req[p].id) ELSE Reload

\* Redis hands a message to the instances that are subscribed, to all in one order.
Deliver(msg) ==
    /\ inbox' = [i \in Instances |-> IF phase[i] = "up" THEN Append(inbox[i], msg)
                                     ELSE inbox[i]]
    /\ missed' = [i \in Instances |-> missed[i] \/ phase[i] \in {"loaded", "cut"}]

\* Mutation: the message of a delete does not name the rule.
PublishNamingNone(p) ==
    /\ Send(p, "done")
    /\ Deliver(IF req[p].kind = "delete" THEN Deletion(NoRule) ELSE Reload)
    /\ UNCHANGED <<pg, cache, phase, load, crashes, failures>>

\* Mutation: the instance that made the change does not hear of it.
PublishToOthers(p) ==
    /\ Send(p, "done")
    /\ inbox' = [i \in Instances |-> IF phase[i] = "up" /\ i # req[p].inst
                                     THEN Append(inbox[i], Message(p)) ELSE inbox[i]]
    /\ missed' = [i \in Instances |-> missed[i] \/ phase[i] \in {"loaded", "cut"}]
    /\ UNCHANGED <<pg, cache, phase, load, crashes, failures>>

\* PUBLISH.
Publish(p) ==
    /\ Send(p, "done")
    /\ Deliver(Message(p))
    /\ UNCHANGED <<pg, cache, phase, load, crashes, failures>>

\* The reply of PUBLISH is lost: the client library will send it again.
PublishAgain(p) ==
    /\ failures < MaxFailures
    /\ Send(p, "cached")
    /\ Deliver(Message(p))
    /\ failures' = failures + 1
    /\ UNCHANGED <<pg, cache, phase, load, crashes>>

\* The request has changed PostgreSQL and told nobody.
Changed(p) == req[p].pc \in {"stored", "cached"} /\ ~req[p].sent

\* PostgreSQL or Redis returns an error, or the client's context is cancelled:
\* the request ends where it is.
Fail(p) ==
    /\ failures < MaxFailures
    /\ req[p].pc \in Underway
    /\ req' = [req EXCEPT ![p].pc = "failed"]
    /\ missed' = [i \in Instances |-> missed[i] \/ (Changed(p) /\ Serving(i))]
    /\ failures' = failures + 1
    /\ UNCHANGED <<pg, cache, phase, inbox, load, crashes>>

-----------------------------------------------------------------------------
(***************************************************************************)
(* SubscribeHotReload.                                                     *)
(***************************************************************************)
Received(i, type) == load[i] = Idle /\ inbox[i] # <<>> /\ Head(inbox[i]).type = type

\* Mutation: only reload messages change the copy.
HandleDeleteIgnored(i) ==
    /\ Received(i, "delete")
    /\ inbox' = [inbox EXCEPT ![i] = Tail(@)]
    /\ UNCHANGED <<pg, cache, phase, load, req, missed, crashes, failures>>

HandleDelete(i) ==
    /\ Received(i, "delete")
    /\ cache' = [cache EXCEPT ![i][Head(inbox[i]).id] = NoRule]
    /\ inbox' = [inbox EXCEPT ![i] = Tail(@)]
    /\ UNCHANGED <<pg, phase, load, req, missed, crashes, failures>>

\* loadAll's query.
Query(i) ==
    /\ Received(i, "reload")
    /\ load' = [load EXCEPT ![i] = <<pg>>]
    /\ inbox' = [inbox EXCEPT ![i] = Tail(@)]
    /\ missed' = [missed EXCEPT ![i] = FALSE]
    /\ UNCHANGED <<pg, cache, phase, req, crashes, failures>>

\* loadAll replaces the copy by what it has read.
Swap(i) ==
    /\ load[i] # Idle
    /\ cache' = [cache EXCEPT ![i] = load[i][1]]
    /\ load' = [load EXCEPT ![i] = Idle]
    /\ UNCHANGED <<pg, phase, inbox, req, missed, crashes, failures>>

\* loadAll returns an error, which the handler drops.
QueryFails(i) ==
    /\ failures < MaxFailures
    /\ Received(i, "reload")
    /\ inbox' = [inbox EXCEPT ![i] = Tail(@)]
    /\ missed' = [missed EXCEPT ![i] = TRUE]
    /\ failures' = failures + 1
    /\ UNCHANGED <<pg, cache, phase, load, req, crashes>>

\* The handler has been busy for a minute and go-redis holds all the messages it may:
\* it drops the next one.
Drop(i) ==
    /\ failures < MaxFailures
    /\ Len(inbox[i]) > ChannelSize
    /\ inbox' = [inbox EXCEPT ![i] =
                     SubSeq(@, 1, ChannelSize) \o SubSeq(@, ChannelSize + 2, Len(@))]
    /\ missed' = [missed EXCEPT ![i] = TRUE]
    /\ failures' = failures + 1
    /\ UNCHANGED <<pg, cache, phase, load, req, crashes>>

\* The connection to Redis breaks; go-redis subscribes again, and nothing
\* reloads the rules.
Cut(i) ==
    /\ failures < MaxFailures
    /\ phase[i] = "up"
    /\ phase' = [phase EXCEPT ![i] = "cut"]
    /\ failures' = failures + 1
    /\ UNCHANGED <<pg, cache, inbox, load, req, missed, crashes>>

Reconnect(i) ==
    /\ phase[i] = "cut"
    /\ phase' = [phase EXCEPT ![i] = "up"]
    /\ UNCHANGED <<pg, cache, inbox, load, req, missed, crashes, failures>>

-----------------------------------------------------------------------------
(***************************************************************************)
(* main: New loads the rules; the subscription is another goroutine, and   *)
(* the API may serve before it is made.                                    *)
(***************************************************************************)
Start(i) ==
    /\ phase[i] = "down"
    /\ cache' = [cache EXCEPT ![i] = pg]
    /\ phase' = [phase EXCEPT ![i] = "loaded"]
    /\ UNCHANGED <<pg, inbox, load, req, missed, crashes, failures>>

Subscribe(i) ==
    /\ phase[i] = "loaded"
    /\ phase' = [phase EXCEPT ![i] = "up"]
    /\ UNCHANGED <<pg, cache, inbox, load, req, missed, crashes, failures>>

\* An instance stops, and with it the requests it serves.
Crash(i) ==
    LET cutShort == {p \in Requests : req[p].pc \in Underway /\ req[p].inst = i} IN
    /\ crashes < MaxCrashes
    /\ Serving(i)
    /\ phase' = [phase EXCEPT ![i] = "down"]
    /\ cache' = [cache EXCEPT ![i] = [id \in Ids |-> NoRule]]
    /\ inbox' = [inbox EXCEPT ![i] = <<>>]
    /\ load' = [load EXCEPT ![i] = Idle]
    /\ req' = [p \in Requests |-> IF p \in cutShort
                                  THEN [req[p] EXCEPT !.pc = "failed"] ELSE req[p]]
    /\ missed' = [j \in Instances |->
                     /\ j # i
                     /\ missed[j] \/ (Serving(j) /\ (\E p \in cutShort : Changed(p)))]
    /\ crashes' = crashes + 1
    /\ UNCHANGED <<pg, failures>>

-----------------------------------------------------------------------------
Request(p) ==
    \/ \E i \in Instances, id \in Ids :
           Create(p, i, id) \/ Update(p, i, id) \/ Delete(p, i, id)
    \/ Store(p) \/ Cache(p) \/ Publish(p) \/ PublishAgain(p) \/ Fail(p)

Handle(i) == HandleDelete(i) \/ Query(i) \/ Swap(i)

Instance(i) ==
    \/ Handle(i) \/ QueryFails(i) \/ Drop(i) \/ Cut(i) \/ Reconnect(i)
    \/ Start(i) \/ Subscribe(i) \/ Crash(i)

Next == (\E p \in Requests : Request(p)) \/ (\E i \in Instances : Instance(i))

Spec == Init /\ [][Next]_vars

(***************************************************************************)
(* A request that has begun goes on until it ends, and a handler with a    *)
(* message takes it.  Nobody has to ask for a change, to crash or to fail. *)
(***************************************************************************)
Fairness ==
    /\ \A p \in Requests : WF_vars(Store(p)) /\ WF_vars(Cache(p)) /\ WF_vars(Publish(p))
    /\ \A i \in Instances : WF_vars(Handle(i))

FairSpec == Spec /\ Fairness
-----------------------------------------------------------------------------
(***************************************************************************)
(* Properties.                                                             *)
(***************************************************************************)
Messages == {Reload} \cup {Deletion(id) : id \in Ids}
Asked ==
    {a \in [pc : Underway \cup {"done", "failed"}, kind : {"create", "update", "delete"},
            inst : Instances, id : Ids, sent : BOOLEAN] :
         a.sent => a.pc \notin {"checked", "stored"}}

\* An instance that is down holds nothing and has nothing to do.
DownIsIdle ==
    /\ \A i \in Instances : ~Serving(i) => /\ inbox[i] = <<>> /\ load[i] = Idle
                                           /\ cache[i] = [id \in Ids |-> NoRule]
    /\ \A p \in Requests : req[p].pc \in Underway => Serving(req[p].inst)

\* Every variable holds what it is for, and an instance that is down nothing.
TypeOK ==
    /\ pg \in Rules /\ cache \in [Instances -> Rules]
    /\ phase \in [Instances -> {"down", "loaded", "up", "cut"}]
    /\ inbox \in [Instances -> Seq(Messages)]
    /\ load \in [Instances -> {Idle} \cup {<<r>> : r \in Rules}]
    /\ req \in [Requests -> {[pc |-> "new"]} \cup Asked]
    /\ missed \in [Instances -> BOOLEAN]
    /\ crashes \in 0 .. MaxCrashes /\ failures \in 0 .. MaxFailures
    /\ DownIsIdle

\* A rule is in force on an instance only once it is in PostgreSQL, so that a
\* restart cannot take back what was enforced.
DurableBeforeInForce ==
    \A i \in Instances, p \in Requests :
        (\E id \in Ids : cache[i][id] = p) => req[p].pc \notin {"new", "checked"}

\* What instance i will hold for id when it has handled what it was sent.
Positions(i, msg) == {n \in DOMAIN inbox[i] : inbox[i][n] = msg}
Outcome(i, id) ==
    IF \E n \in Positions(i, Deletion(id)) : \A m \in Positions(i, Reload) : m < n
    THEN NoRule
    ELSE IF Positions(i, Reload) # {} THEN pg[id]
    ELSE IF load[i] # Idle THEN load[i][1][id]
    ELSE cache[i][id]

\* A stored rule that is missing from a copy, although its last change was published:
\* a delete of it was stored before that change and published after it, and the
\* handler of a delete does not read PostgreSQL.
Deleted(id) ==
    \E p \in Requests :
        req[p].pc # "new" /\ req[p].sent /\ req[p].kind = "delete" /\ req[p].id = id
Overtaken(id) == pg[id] # NoRule /\ Deleted(id)

\* A copy that holds r for id is as good as PostgreSQL's rule, or has lost it to
\* such a delete.
Agrees(id, r) == r = pg[id] \/ (r = NoRule /\ Overtaken(id))

\* A change of id is stored and still to be published.
Open(id) == \E p \in Requests : Changed(p) /\ req[p].id = id

\* Whatever the order of writes to PostgreSQL, writes to the copies, messages and
\* reloads: an instance that was told of every change settles on what PostgreSQL
\* holds, for each rule no change of which is still to be published; all it may do
\* is lose a rule to a delete that raced a later change, and never does it go on
\* with an old version, or with a rule that is gone.
SettlesOnStored ==
    \A i \in Instances : Serving(i) /\ ~missed[i] =>
        \A id \in Ids :
            Agrees(id, Outcome(i, id)) \/ Open(id)

\* And it gets there: once the changes have ended, the copies are PostgreSQL's
\* rules for good, but for those so lost.
EventuallyInSync ==
    <>[](\A i \in Instances : Serving(i) /\ ~missed[i] =>
            \A id \in Ids : Agrees(id, cache[i][id]))

\* "Rule changes are published over Redis pub/sub so every instance reloads
\* immediately" (rule_store.go:2): when nothing is under way, every instance that
\* serves holds the rules of PostgreSQL.
Quiet ==
    /\ \A p \in Requests : ~Changed(p)
    /\ \A i \in Instances : inbox[i] = <<>> /\ load[i] = Idle
HotCopies == Quiet => \A i \in Instances : Serving(i) => cache[i] = pg

\* "Update validates and replaces an existing rule" (rule_store.go:161): it never
\* inserts one.
UpdateReplacesExisting ==
    [][\A p \in Requests : Store(p) /\ req[p].kind = "update" =>
           pg[req[p].id] # NoRule]_vars
=============================================================================
