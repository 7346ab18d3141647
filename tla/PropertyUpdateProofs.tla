------------------------ MODULE PropertyUpdateProofs ------------------------
(***************************************************************************)
(* Proofs about PropertyUpdate, for any agents, tags and bounds: its type  *)
(* invariant, and that it implements SharedList.                           *)
(***************************************************************************)
EXTENDS PropertyUpdate, TLAPS

(* What an agent has read is not newer than the property, and is the list  *)
(* of the moment if it has the version of the moment.                      *)
ReadInv == \A i \in Agents :
    /\ seen[i].version <= version
    /\ seen[i].version = version => seen[i].list = list
    /\ seen[i].list \subseteq added

(* So it is with a request in flight, whose list has its sender's item.    *)
FlightInv == \A q \in flight :
    /\ q.expected = Unchecked => q.from \in Careless
    /\ q.expected <= version
    /\ q.expected = version => q.list = list \cup {q.from}
    /\ q.from \in q.list
    /\ q.list \subseteq added \cup {q.from}
    /\ ~q.dryRun => q.from \in asked
    /\ call[q.from] = q.tag => q.dryRun = dry[q.from]

(* Success of a call that was no dry run, or known success, means that the *)
(* item was saved; what is in the list was saved.                          *)
SavedInv ==
    /\ list \subseteq added
    /\ \A i \in Agents :
          /\ pc[i] = "done" => i \in added
          /\ reply[i] = "ok" /\ ~dry[i] => i \in added
          /\ pc[i] # "waiting" => reply[i] = None /\ call[i] = None

IInv == TypeOK /\ ReadInv /\ FlightInv /\ SavedInv

-----------------------------------------------------------------------------

LEMMA InitIInv == Init => IInv
<1> SUFFICES ASSUME Init PROVE IInv
    OBVIOUS
<1>1. TypeOK
    BY BoundsAssumption DEF Init, TypeOK, Versions
<1>2. ReadInv /\ FlightInv /\ SavedInv
    BY NoneAssumption DEF Init, ReadInv, FlightInv, SavedInv
<1> QED  BY <1>1, <1>2 DEF IInv

LEMMA ReadKeepsIInv ==
    ASSUME IInv, NEW i \in Agents, GetPropertyDetails(i)
    PROVE  IInv'
<1> USE DEF IInv, GetPropertyDetails
<1>1. TypeOK'
    BY DEF TypeOK
<1>2. ReadInv'
    BY DEF TypeOK, Versions, ReadInv, SavedInv
<1>3. FlightInv'
    BY DEF FlightInv
<1>4. SavedInv'
    BY DEF TypeOK, SavedInv
<1> QED  BY <1>1, <1>2, <1>3, <1>4

LEMMA UpdateKeepsIInv ==
    ASSUME IInv, NEW i \in Agents, NEW dryRun \in BOOLEAN,
           UpdateProperty(i, dryRun)
    PROVE  IInv'
<1> PICK tag \in Tags :
        /\ \A q \in flight : q.from = i => q.tag # tag
        /\ call' = [call EXCEPT ![i] = tag]
        /\ flight' = flight \cup
              {[from |-> i, tag |-> tag, expected |-> IfMatch(i),
                list |-> seen[i].list \cup {i}, dryRun |-> dryRun]}
    BY DEF UpdateProperty
<1> DEFINE new == [from |-> i, tag |-> tag, expected |-> IfMatch(i),
                   list |-> seen[i].list \cup {i}, dryRun |-> dryRun]
<1>1. /\ IfMatch(i) \in Versions \cup {Unchecked}
      /\ IfMatch(i) = Unchecked => i \in Careless
      /\ IfMatch(i) # Unchecked => IfMatch(i) = seen[i].version
    BY DEF IInv, TypeOK, Versions, IfMatch, Unchecked
<1>2. TypeOK'
  <2>1. new \in Request
      BY <1>1 DEF IInv, TypeOK, Request
  <2>2. repeats' \in [Agents -> 0..MaxRepeats]
      BY BoundsAssumption DEF IInv, TypeOK, UpdateProperty
  <2>3. UNCHANGED <<version, list, seen, reply, added>>
      BY DEF UpdateProperty
  <2>4. pc' = [pc EXCEPT ![i] = "waiting"]
      BY DEF UpdateProperty
  <2>5. dry' = [dry EXCEPT ![i] = dryRun] /\ asked' \in SUBSET Agents
      BY DEF IInv, TypeOK, UpdateProperty
  <2>6. flight' \in SUBSET Request
      BY <2>1 DEF IInv, TypeOK
  <2> QED  BY <2>2, <2>3, <2>4, <2>5, <2>6 DEF IInv, TypeOK
<1>3. ReadInv'
    BY DEF IInv, ReadInv, UpdateProperty
<1>4. FlightInv'
  <2> SUFFICES ASSUME NEW q \in flight'
               PROVE  /\ q.expected = Unchecked => q.from \in Careless
                      /\ q.expected <= version
                      /\ q.expected = version => q.list = list \cup {q.from}
                      /\ q.from \in q.list
                      /\ q.list \subseteq added \cup {q.from}
                      /\ ~q.dryRun => q.from \in asked'
                      /\ call'[q.from] = q.tag => q.dryRun = dry'[q.from]
      BY DEF FlightInv, UpdateProperty
  <2>1. CASE q \in flight
      BY <2>1 DEF IInv, TypeOK, Request, FlightInv, UpdateProperty
  <2>2. CASE q = new
    <3>1. q.expected <= version
        BY <1>1, <2>2 DEF IInv, TypeOK, Versions, ReadInv, Unchecked
    <3>2. q.expected = version => q.list = list \cup {q.from}
        BY <1>1, <2>2 DEF IInv, TypeOK, Versions, ReadInv, Unchecked
    <3>3. q.from \in q.list /\ q.list \subseteq added \cup {q.from}
        BY <2>2 DEF IInv, ReadInv
    <3>4. ~q.dryRun => q.from \in asked'
        BY <2>2 DEF UpdateProperty
    <3>5. q.dryRun = dry'[q.from]
        BY <2>2 DEF IInv, TypeOK, UpdateProperty
    <3> QED  BY <1>1, <2>2, <3>1, <3>2, <3>3, <3>4, <3>5
  <2> QED  BY <2>1, <2>2
<1>5. SavedInv'
    BY NoneAssumption DEF IInv, TypeOK, SavedInv, UpdateProperty
<1> QED  BY <1>2, <1>3, <1>4, <1>5 DEF IInv

(* A call ends, with its reply or without.                                 *)
LEMMA EndKeepsIInv ==
    ASSUME IInv, NEW i \in Agents, Receive(i) \/ NoAnswer(i)
    PROVE  IInv'
<1>1. /\ reply' = [reply EXCEPT ![i] = None]
      /\ call' = [call EXCEPT ![i] = None]
      /\ UNCHANGED <<version, list, seen, dry, flight, repeats, asked, added>>
    BY DEF Receive, NoAnswer
<1>2. \E p \in {"idle", "read", "unsure", "done"} :
          /\ pc' = [pc EXCEPT ![i] = p]
          /\ p = "done" => reply[i] = "ok" /\ ~dry[i]
    BY DEF IInv, TypeOK, Receive, NoAnswer
<1>3. TypeOK'
    BY <1>1, <1>2 DEF IInv, TypeOK
<1>4. ReadInv'
    BY <1>1 DEF IInv, ReadInv
<1>5. FlightInv'
  <2>1. \A q \in flight : q.tag # None /\ q.from \in Agents
      BY NoneAssumption DEF IInv, TypeOK, Request
  <2>2. \A q \in flight : call'[q.from] = q.tag => call[q.from] = q.tag
      BY <1>1, <2>1 DEF IInv, TypeOK
  <2> QED  BY <1>1, <2>2 DEF IInv, FlightInv
<1>6. SavedInv'
    BY <1>1, <1>2, NoneAssumption DEF IInv, TypeOK, SavedInv
<1> QED  BY <1>3, <1>4, <1>5, <1>6 DEF IInv

(* What a reply does; "ok" only goes to a call whose item is saved.        *)
LEMMA ReplyKeepsIInv ==
    ASSUME IInv, NEW q \in flight, NEW outcome \in {"ok", "stale", "refused"},
           Reply(q, outcome),
           UNCHANGED <<pc, seen, call, dry, repeats, asked>>,
           TypeOK', ReadInv',
           \A p \in flight :
               /\ p.expected <= version'
               /\ p.expected = version' => p.list = list' \cup {p.from},
           added \subseteq added', list' \subseteq added',
           outcome = "ok" /\ ~q.dryRun => q.from \in added'
    PROVE  IInv'
<1>1. q.from \in Agents /\ q.tag # None
    BY NoneAssumption DEF IInv, TypeOK, Request
<1>2. FlightInv'
  <2>1. flight' \subseteq flight
      BY DEF Reply
  <2> QED  BY <2>1 DEF IInv, FlightInv
<1>3. SavedInv'
  <2> SUFFICES ASSUME NEW i \in Agents
               PROVE  /\ pc'[i] = "done" => i \in added'
                      /\ reply'[i] = "ok" /\ ~dry'[i] => i \in added'
                      /\ pc'[i] # "waiting" =>
                            reply'[i] = None /\ call'[i] = None
      BY DEF SavedInv
  <2>1. CASE reply'[i] = reply[i]
      BY <2>1 DEF IInv, SavedInv
  <2>2. CASE reply'[i] # reply[i]
    <3>1. i = q.from /\ call[i] = q.tag /\ reply'[i] = outcome
        BY <1>1, <2>2 DEF Reply, IInv, TypeOK
    <3>2. q.dryRun = dry[i]
        BY <3>1 DEF IInv, FlightInv
    <3>3. pc[i] = "waiting"
        BY <1>1, <3>1 DEF IInv, SavedInv
    <3> QED  BY <3>1, <3>2, <3>3
  <2> QED  BY <2>1, <2>2
<1> QED  BY <1>2, <1>3 DEF IInv

LEMMA ReplyType ==
    ASSUME TypeOK, NEW q \in flight, NEW outcome \in {"ok", "stale", "refused"},
           Reply(q, outcome)
    PROVE  /\ flight' \in SUBSET Request
           /\ reply' \in [Agents -> {None, "ok", "stale", "refused"}]
<1>1. q.from \in Agents
    BY DEF TypeOK, Request
<1> QED  BY <1>1 DEF TypeOK, Reply

LEMMA RefuseKeepsIInv ==
    ASSUME IInv, NEW q \in flight, Refuse(q)
    PROVE  IInv'
<1>1. Reply(q, "refused")
    BY DEF Refuse
<1>2. UNCHANGED <<version, list, pc, seen, call, dry, repeats, asked, added>>
    BY DEF Refuse
<1>3. TypeOK'
    BY <1>1, <1>2, ReplyType DEF IInv, TypeOK
<1>4. ReadInv'
    BY <1>2 DEF IInv, ReadInv
<1> QED  BY <1>1, <1>2, <1>3, <1>4, ReplyKeepsIInv DEF IInv, FlightInv, SavedInv

(* What an update that is applied does to the list.                        *)
LEMMA Saving ==
    ASSUME IInv, NEW q \in flight, Serve(q), version' # version
    PROVE  /\ q.expected \in {Unchecked, version}
           /\ ~q.dryRun
           /\ version' = version + 1
           /\ version' \in Versions
           /\ list' = q.list
           /\ added' = added \cup {q.from}
    BY BoundsAssumption DEF Serve, IInv, TypeOK, Versions

LEMMA ServeKeepsIInv ==
    ASSUME IInv, NEW q \in flight, Serve(q)
    PROVE  IInv'
<1> DEFINE current == q.expected \in {Unchecked, version}
           outcome == IF current THEN "ok" ELSE "stale"
<1>1. Reply(q, outcome) /\ outcome \in {"ok", "stale", "refused"}
    BY DEF Serve
<1>2. UNCHANGED <<pc, seen, call, dry, repeats, asked>>
    BY DEF Serve
<1>3. q \in Request /\ q.from \in Agents /\ version \in Nat
    BY DEF IInv, TypeOK, Versions, Request
<1>4. CASE version' # version
  <2>1. TypeOK'
    <3>1. q.list \in SUBSET Agents
        BY <1>3 DEF Request
    <3> QED  BY <1>1, <1>2, <1>3, <1>4, <3>1, Saving, ReplyType DEF IInv, TypeOK
  <2>2. ReadInv'
      BY <1>2, <1>3, <1>4, Saving DEF IInv, TypeOK, Versions, ReadInv
  <2>3. \A p \in flight : p.expected <= version' /\ p.expected # version'
    <3> TAKE p \in flight
    <3>1. p.expected \in Nat
        BY DEF IInv, TypeOK, Request, Versions, Unchecked
    <3> QED  BY <1>3, <1>4, <3>1, Saving DEF IInv, FlightInv
  <2>4. list' \subseteq added'
      BY <1>4, Saving DEF IInv, FlightInv
  <2> QED
      BY <1>1, <1>2, <1>4, <2>1, <2>2, <2>3, <2>4, Saving, ReplyKeepsIInv
<1>5. CASE version' = version
  <2>1. UNCHANGED <<version, list, added>>
      BY <1>3, <1>5 DEF Serve
  <2>2. current /\ ~q.dryRun => q.list = list
      BY <1>3, <1>5 DEF Serve
  <2>3. TypeOK'
      BY <1>1, <1>2, <2>1, ReplyType DEF IInv, TypeOK
  <2>4. ReadInv'
      BY <1>2, <2>1 DEF IInv, ReadInv
  <2>5. outcome = "ok" /\ ~q.dryRun => q.from \in added'
      BY <2>1, <2>2 DEF IInv, FlightInv, SavedInv
  <2> QED
      BY <1>1, <1>2, <2>1, <2>3, <2>4, <2>5, ReplyKeepsIInv
      DEF IInv, FlightInv, SavedInv
<1> QED  BY <1>4, <1>5

-----------------------------------------------------------------------------

(* The invariant holds in every state.                                     *)
THEOREM Inductive == Spec => []IInv
<1>1. IInv /\ [Next]_vars => IInv'
  <2> SUFFICES ASSUME IInv, [Next]_vars PROVE IInv'
      OBVIOUS
  <2>1. CASE UNCHANGED vars
      BY <2>1
      DEF vars, IInv, TypeOK, ReadInv, FlightInv, SavedInv
  <2>2. ASSUME NEW i \in Agents, GetPropertyDetails(i) PROVE IInv'
      BY <2>2, ReadKeepsIInv
  <2>3. ASSUME NEW i \in Agents, NEW dryRun \in BOOLEAN,
               UpdateProperty(i, dryRun)
        PROVE  IInv'
      BY <2>3, UpdateKeepsIInv
  <2>4. ASSUME NEW i \in Agents, Receive(i) \/ NoAnswer(i) PROVE IInv'
      BY <2>4, EndKeepsIInv
  <2>5. ASSUME NEW q \in flight, Serve(q) PROVE IInv'
      BY <2>5, ServeKeepsIInv
  <2>6. ASSUME NEW q \in flight, Refuse(q) PROVE IInv'
      BY <2>6, RefuseKeepsIInv
  <2> QED  BY <2>1, <2>2, <2>3, <2>4, <2>5, <2>6 DEF Next
<1> QED  BY InitIInv, <1>1, PTL DEF Spec

(* Every variable keeps its type, the version within its bound.  A record  *)
(* in flight is a well-formed PATCH (property_update.go:137-147).          *)
THEOREM TypeCorrect == Spec => []TypeOK
<1>1. IInv => TypeOK
    BY DEF IInv
<1> QED  BY Inductive, <1>1, PTL

(* update_property adds atomically under If-Match (property_update.go:137- *)
(* 147), and success is told only of what was saved.                       *)
THEOREM Implements == Spec => KeepsPromise
<1> USE DEF Told, Promise!vars
<1>1. Init => Promise!Init
    BY DEF Init, Promise!Init
<1>2. IInv /\ [Next]_vars => [Promise!Next]_Promise!vars
  <2> SUFFICES ASSUME IInv, [Next]_vars
               PROVE  Promise!Next \/ UNCHANGED Promise!vars
      OBVIOUS
  <2> USE DEF Promise!Next
  <2>1. CASE UNCHANGED vars
      BY <2>1 DEF vars
  <2>2. ASSUME NEW i \in Agents, GetPropertyDetails(i)
        PROVE  Promise!Tell(i) \/ UNCHANGED Promise!vars
      BY <2>2 DEF IInv, TypeOK, SavedInv, GetPropertyDetails, Promise!Tell
  <2>3. ASSUME NEW i \in Agents, NEW dryRun \in BOOLEAN,
               UpdateProperty(i, dryRun)
        PROVE  Promise!Ask(i) \/ UNCHANGED Promise!vars
    <3>1. Told' = Told
        BY <2>3 DEF IInv, TypeOK, UpdateProperty
    <3> QED  BY <2>3, <3>1 DEF UpdateProperty, Promise!Ask
  <2>4. ASSUME NEW i \in Agents, Receive(i)
        PROVE  Promise!Tell(i) \/ UNCHANGED Promise!vars
      BY <2>4 DEF IInv, TypeOK, SavedInv, Receive, Promise!Tell
  <2>5. ASSUME NEW i \in Agents, NoAnswer(i)
        PROVE  UNCHANGED Promise!vars
      BY <2>5 DEF IInv, TypeOK, NoAnswer
  <2>6. ASSUME NEW q \in flight, Serve(q)
        PROVE  Promise!Next \/ UNCHANGED Promise!vars
    <3>1. UNCHANGED <<pc, asked>> /\ q.from \in Agents /\ version \in Nat
        BY <2>6 DEF Serve, IInv, TypeOK, Request, Versions
    <3>2. CASE version' = version
        BY <2>6, <3>1, <3>2 DEF Serve
    <3>3. CASE version' # version /\ q.expected = version
      <4>1. list' = list \cup {q.from} /\ q.from \in asked
          BY <2>6, <3>3, Saving DEF IInv, FlightInv
      <4>2. Promise!Add(q.from)
          BY <2>6, <3>1, <3>3, <4>1, Saving DEF Promise!Add
      <4> QED  BY <3>1, <4>2
    <3>4. CASE version' # version /\ q.expected = Unchecked
      <4>1. q.from \in Careless \cap asked /\ q.from \in q.list
          BY <2>6, <3>4, Saving DEF IInv, FlightInv
      <4>2. q.list \in SUBSET Agents
          BY DEF IInv, TypeOK, Request
      <4>3. Promise!Overwrite(q.from)
          BY <2>6, <3>1, <3>4, <4>1, <4>2, Saving DEF Promise!Overwrite
      <4> QED  BY <3>1, <4>3
    <3> QED  BY <2>6, <3>2, <3>3, <3>4, Saving
  <2>7. ASSUME NEW q \in flight, Refuse(q)
        PROVE  UNCHANGED Promise!vars
      BY <2>7 DEF Refuse
  <2> QED  BY <2>1, <2>2, <2>3, <2>4, <2>5, <2>6, <2>7 DEF Next
<1> QED  BY Inductive, <1>1, <1>2, PTL DEF Spec, KeepsPromise, Promise!Spec

=============================================================================
