-------------------------- MODULE EnclaveServerProofs --------------------------
(******************************************************************************)
(* The table of requests: what was issued, removed and answered.  The theorems*)
(* about the ecalls are at the end.                                           *)
(******************************************************************************)
EXTENDS EnclaveServerSteps

\* The table

LEMMA EntriesStep ==
  ASSUME IInv, NEW t \in Threads, Ecall(t) \/ Step(t) PROVE Entries'
<1>0. TypeOK /\ Entries /\ Adding
  BY DEF IInv
<1> USE <1>0 DEF Entries
<1>1. CASE NextRequestId(t)
  BY <1>1 DEF NextRequestId, TypeOK
<1>2. CASE sgxsd_enclave_add_pending_request(t)
  <2>1. th[t].id \in 1 .. last_pending_request_id_val /\ SlotOf(th[t].id) \in Slots
    BY <1>2, SlotInRange DEF Adding, sgxsd_enclave_add_pending_request, TypeOK
  <2> QED BY <1>2, <2>1 DEF sgxsd_enclave_add_pending_request, WriteRequest, TypeOK
<1>3. CASE sgxsd_enclave_remove_pending_request(t)
  BY <1>3 DEF sgxsd_enclave_remove_pending_request, ZeroRequest, NoRequest, TypeOK
<1>4. CASE UNCHANGED <<pending_requests, last_pending_request_id_val>>
  BY <1>4
<1> QED BY <1>1, <1>2, <1>3, <1>4, Frames

\* A thread that removes a request has the id of one that was given to a client, is in the
\* table and was not taken before.
LEMMA Removing ==
  ASSUME IInv, NEW t \in Threads, sgxsd_enclave_remove_pending_request(t)
  PROVE  /\ th[t].id \in 1 .. last_pending_request_id_val
         /\ SlotOf(th[t].id) \in Slots
         /\ pending_requests[SlotOf(th[t].id)].id_val = th[t].id
         /\ \A x \in taken : x.id # th[t].id
<1>1. TypeOK /\ Looking /\ FoundInTable /\ Issued /\ TakenGone
  BY DEF IInv
<1>2. th[t].fn = "call" /\ th[t].at = "table2"
  BY DEF sgxsd_enclave_remove_pending_request
<1>3. /\ th[t].id = 0 \/ \E r \in responses : r.id = th[t].id
      /\ th[t].id # 0
      /\ pending_requests[SlotOf(th[t].id)].id_val = th[t].id
  BY <1>1, <1>2 DEF Looking, FoundInTable, TablePlaces
<1>4. th[t].id \in 1 .. last_pending_request_id_val
  BY <1>1, <1>3 DEF Issued
<1> QED BY <1>1, <1>3, <1>4, SlotInRange DEF TakenGone, TypeOK

LEMMA TakenStep ==
  ASSUME IInv, NEW t \in Threads, Ecall(t) \/ Step(t) PROVE (TakenGone /\ TakenOnce)'
<1>0. TypeOK /\ TypeOK' /\ TakenGone /\ TakenOnce /\ Adding
  BY TypeStep DEF IInv
<1>1. CASE sgxsd_enclave_remove_pending_request(t)
  <2>1. /\ taken' = taken \cup {[id |-> th[t].id, nth |-> Cardinality(taken)]}
        /\ pending_requests' = [pending_requests EXCEPT ![SlotOf(th[t].id)] = NoRequest]
        /\ last_pending_request_id_val' = last_pending_request_id_val
    BY <1>1 DEF sgxsd_enclave_remove_pending_request, ZeroRequest
  <2>2. TakenGone'
    BY <1>0, <1>1, <2>1, Removing DEF TakenGone, TypeOK, NoRequest
  <2>3. TakenOnce'
    BY <1>0, <1>1, <2>1, Removing DEF TakenOnce
  <2> QED BY <2>2, <2>3
<1>2. CASE sgxsd_enclave_add_pending_request(t)
  <2>1. /\ taken' = taken
        /\ pending_requests' = [pending_requests EXCEPT ![SlotOf(th[t].id)] =
                                  [id_val |-> th[t].id, hkdf_prk |-> th[t].prk]]
        /\ last_pending_request_id_val' = last_pending_request_id_val
        /\ \A x \in taken : x.id # th[t].id
    BY <1>0, <1>2 DEF sgxsd_enclave_add_pending_request, WriteRequest, Adding
  <2> QED BY <1>0, <2>1, SlotInRange DEF TakenGone, TakenOnce, TypeOK
<1>3. CASE NextRequestId(t)
  BY <1>0, <1>3 DEF NextRequestId, TakenGone, TakenOnce, TypeOK
<1>4. CASE UNCHANGED <<pending_requests, last_pending_request_id_val, taken>>
  BY <1>0, <1>4 DEF TakenGone, TakenOnce
<1> QED BY <1>1, <1>2, <1>3, <1>4, Frames

LEMMA IssuedStep ==
  ASSUME IInv, NEW t \in Threads, Ecall(t) \/ Step(t) PROVE Issued'
<1>0. TypeOK /\ Issued /\ Adding
  BY DEF IInv
<1>1. CASE sgxsd_enclave_remove_pending_request(t)
  <2>1. /\ responses' = responses
        /\ pending_requests' = [pending_requests EXCEPT ![SlotOf(th[t].id)] = NoRequest]
        /\ last_pending_request_id_val' = last_pending_request_id_val
    BY <1>1 DEF sgxsd_enclave_remove_pending_request, ZeroRequest
  <2> QED BY <1>0, <2>1, SlotInRange DEF Issued, NoRequest, TypeOK
<1>2. CASE sgxsd_enclave_add_pending_request(t)
  <2>1. /\ responses' = responses
        /\ pending_requests' = [pending_requests EXCEPT ![SlotOf(th[t].id)] =
                                  [id_val |-> th[t].id, hkdf_prk |-> th[t].prk]]
        /\ last_pending_request_id_val' = last_pending_request_id_val
        /\ \A r \in responses : r.id # th[t].id
    BY <1>0, <1>2 DEF sgxsd_enclave_add_pending_request, WriteRequest, Adding
  <2> QED BY <1>0, <2>1, SlotInRange DEF Issued, TypeOK
<1>3. CASE NextRequestId(t)
  BY <1>0, <1>3 DEF NextRequestId, Issued, TypeOK
<1>4. CASE Respond(t)
  <2> DEFINE q == [id |-> th[t].id, prk |-> th[t].prk]
  <2>1. /\ UNCHANGED <<pending_requests, last_pending_request_id_val>>
        /\ responses' \in {responses, responses \cup {q}}
        /\ th[t].at = "respond" /\ th[t].fn = "negotiate"
    BY <1>4 DEF Respond, IInv, Flow, FlowAt
  <2>2. /\ q.id \in 1 .. last_pending_request_id_val
        /\ \A r \in responses : r.id # q.id
        /\ pending_requests[SlotOf(q.id)].id_val = q.id =>
             pending_requests[SlotOf(q.id)].hkdf_prk = q.prk
    BY <1>0, <2>1 DEF Adding
  <2> HIDE DEF q
  <2> QED BY <1>0, <2>1, <2>2 DEF Issued
<1>5. CASE UNCHANGED <<pending_requests, last_pending_request_id_val, responses>>
  BY <1>0, <1>5 DEF Issued
<1> QED BY <1>1, <1>2, <1>3, <1>4, <1>5, Frames

LEMMA RepliedStep ==
  ASSUME IInv, NEW t \in Threads, Ecall(t) \/ Step(t) PROVE Replied'
<1>0. Replied /\ Handling
  BY DEF IInv
<1>1. taken \subseteq taken'
  BY Frames DEF sgxsd_enclave_remove_pending_request
<1>2. CASE Replies(t)
  <2>1. /\ th[t].fn = "call" /\ th[t].at = "callback" /\ th[t].from
        /\ \/ replies' = replies
           \/ replies' = replies \cup {[id |-> th[t].id, nth |-> Cardinality(replies)]}
    BY <1>2 DEF Replies
  <2>2. (\E x \in taken : x.id = th[t].id) /\ \A x \in replies : x.id # th[t].id
    BY <1>0, <2>1 DEF Handling
  <2> QED BY <1>0, <1>1, <2>1, <2>2 DEF Replied
<1>3. CASE replies' = replies
  BY <1>0, <1>1, <1>3 DEF Replied
<1> QED BY <1>2, <1>3, Frames

\* Another thread under the table's lock keeps the table as it is.
LEMMA TableHeld ==
  ASSUME IInv, NEW t \in Threads, Ecall(t) \/ Step(t),
         NEW u \in Threads, u # t, th[u].at \in TablePlaces
  PROVE  UNCHANGED <<pending_requests, last_pending_request_id_val, taken>>
<1>1. th[t].at \notin TablePlaces
  BY DEF IInv, TableLock
<1>2. /\ ~NextRequestId(t) /\ ~sgxsd_enclave_add_pending_request(t)
      /\ ~sgxsd_enclave_remove_pending_request(t)
  BY <1>1 DEF TablePlaces, NextRequestId, sgxsd_enclave_add_pending_request,
     sgxsd_enclave_remove_pending_request
<1> QED BY Zenon, <1>2, Frames

\* An entry of the table stays, is taken, or is replaced by one that is a table newer; it is
\* never replaced by another with the same id.
LEMMA TableKeeps ==
  ASSUME IInv, NEW t \in Threads, Ecall(t) \/ Step(t),
         NEW id \in 1 .. last_pending_request_id_val,
         sgxsd_enclave_add_pending_request(t) => th[t].id # id
  PROVE  /\ pending_requests'[SlotOf(id)].id_val = id =>
              pending_requests'[SlotOf(id)] = pending_requests[SlotOf(id)]
         /\ \/ pending_requests[SlotOf(id)].id_val = id
            \/ \E x \in taken : x.id = id
            \/ last_pending_request_id_val >= id + TableSize
            => \/ pending_requests'[SlotOf(id)].id_val = id
               \/ \E x \in taken' : x.id = id
               \/ last_pending_request_id_val' >= id + TableSize
<1>a. TypeOK /\ Adding
  BY DEF IInv
<1>b. id \in Nat \ {0}
  BY <1>a DEF TypeOK
<1>0. TypeOK /\ Adding /\ id \in Nat \ {0} /\ SlotOf(id) \in Slots
  BY <1>a, <1>b, SlotInRange
<1>1. CASE NextRequestId(t)
  BY <1>0, <1>1, TableAssumption DEF NextRequestId, TypeOK, TableSize
<1>2. CASE sgxsd_enclave_add_pending_request(t)
  <2>1. /\ th[t].id = last_pending_request_id_val /\ th[t].id # id
        /\ pending_requests' = [pending_requests EXCEPT ![SlotOf(th[t].id)] =
                                  [id_val |-> th[t].id, hkdf_prk |-> th[t].prk]]
        /\ UNCHANGED <<last_pending_request_id_val, taken>>
    BY <1>0, <1>2 DEF sgxsd_enclave_add_pending_request, WriteRequest, Adding
  <2>2. CASE SlotOf(id) = SlotOf(th[t].id)
    <3>1. id < th[t].id /\ th[t].id \in Nat
      BY <1>0, <2>1 DEF TypeOK
    <3>2. th[t].id >= id + TableSize
      BY <1>0, <2>2, <3>1, SameSlot
    <3>3. pending_requests'[SlotOf(id)].id_val # id
      BY <1>0, <2>1, <2>2 DEF TypeOK
    <3> QED BY <2>1, <3>2, <3>3
  <2>3. CASE SlotOf(id) # SlotOf(th[t].id)
    BY <1>0, <2>1, <2>3 DEF TypeOK
  <2> QED BY <2>2, <2>3
<1>3. CASE sgxsd_enclave_remove_pending_request(t)
  <2>1. /\ taken' = taken \cup {[id |-> th[t].id, nth |-> Cardinality(taken)]}
        /\ pending_requests' = [pending_requests EXCEPT ![SlotOf(th[t].id)] = NoRequest]
        /\ last_pending_request_id_val' = last_pending_request_id_val
        /\ pending_requests[SlotOf(th[t].id)].id_val = th[t].id
    BY Zenon, <1>3, Removing DEF sgxsd_enclave_remove_pending_request, ZeroRequest
  <2>2. CASE SlotOf(id) = SlotOf(th[t].id)
    <3>1. pending_requests'[SlotOf(id)].id_val # id
      BY <1>0, <2>1, <2>2 DEF NoRequest, TypeOK
    <3>2. pending_requests[SlotOf(id)].id_val = id => \E x \in taken' : x.id = id
      <4> DEFINE x == [id |-> th[t].id, nth |-> Cardinality(taken)]
      <4>1. x \in taken' /\ x.id = th[t].id
        BY <2>1
      <4> HIDE DEF x
      <4> QED BY <2>1, <2>2, <4>1
    <3> QED BY <2>1, <3>1, <3>2
  <2>3. CASE SlotOf(id) # SlotOf(th[t].id)
    BY <1>0, <2>1, <2>3 DEF TypeOK
  <2> QED BY <2>2, <2>3
<1>4. CASE UNCHANGED <<pending_requests, last_pending_request_id_val, taken>>
  BY <1>4
<1> QED BY <1>1, <1>2, <1>3, <1>4, Frames

LEMMA AddingStep ==
  ASSUME IInv, NEW t \in Threads, Ecall(t) \/ Step(t) PROVE Adding'
<1>0. TypeOK /\ Flow /\ Entries /\ TakenGone /\ Issued /\ Adding
  BY DEF IInv
<1> DEFINE Adds(u) == th[u].fn = "negotiate" /\ th[u].at \in {"table2", "respond"}
<1>1. ASSUME NEW u \in Threads, th'[u].fn = "negotiate", th'[u].at = "table2"
      PROVE  /\ th'[u].id = last_pending_request_id_val'
             /\ \A s \in Slots : pending_requests'[s].id_val # th'[u].id
             /\ \A x \in taken' : x.id # th'[u].id
  <2>1. CASE u = t
    <3>1. NextRequestId(t)
      BY <1>1, <2>1, Becomes
    <3> QED BY <1>0, <2>1, <3>1 DEF NextRequestId, Entries, TakenGone, TypeOK
  <2>2. CASE u # t
    <3>1. th'[u] = th[u]
      BY <2>2, Frames
    <3>2. UNCHANGED <<pending_requests, last_pending_request_id_val, taken>>
      BY <1>1, <2>2, <3>1, TableHeld DEF TablePlaces
    <3> QED BY <1>0, <1>1, <3>1, <3>2 DEF Adding
  <2> QED BY <2>1, <2>2
<1>2. ASSUME NEW u \in Threads, Adds(u)'
      PROVE  \/ u = t /\ NextRequestId(t)
             \/ /\ u = t /\ sgxsd_enclave_add_pending_request(t)
                /\ Adds(u) /\ th'[u].id = th[u].id /\ th'[u].prk = th[u].prk
             \/ u # t /\ th'[u] = th[u] /\ Adds(u)
  <2>1. CASE u = t
    <3>1. NextRequestId(t) \/ sgxsd_enclave_add_pending_request(t)
      BY <1>2, <2>1, Becomes
    <3>2. CASE sgxsd_enclave_add_pending_request(t)
      BY <1>0, <2>1, <3>2 DEF sgxsd_enclave_add_pending_request, Goto, TypeOK
    <3> QED BY <2>1, <3>1, <3>2
  <2>2. CASE u # t
    BY <1>2, <2>2, Frames
  <2> QED BY <2>1, <2>2
<1>3. ASSUME NEW u \in Threads, Adds(u)'
      PROVE  /\ th'[u].id \in 1 .. last_pending_request_id_val'
             /\ \A r \in responses' : r.id # th'[u].id
  <2>1. CASE NextRequestId(t)
    <3>1. /\ last_pending_request_id_val' = last_pending_request_id_val + 1
          /\ responses' = responses /\ th'[t].id = last_pending_request_id_val + 1
      BY <1>0, <2>1 DEF NextRequestId, TypeOK
    <3>2. CASE u = t
      BY <1>0, <3>1, <3>2 DEF Issued, TypeOK
    <3>3. CASE u # t
      BY <1>0, <1>2, <1>3, <3>1, <3>3 DEF Adding, TypeOK
    <3> QED BY <3>2, <3>3
  <2>2. CASE ~NextRequestId(t)
    <3>1. Adds(u) /\ th'[u].id = th[u].id
      BY <1>2, <1>3, <2>2
    <3>2. last_pending_request_id_val' = last_pending_request_id_val
      BY <2>2, Frames
    <3>3. CASE Respond(t)
      <4>1. u # t /\ Adds(t)
        BY <1>0, <1>2, <1>3, <2>2, <3>3 DEF Respond, sgxsd_enclave_add_pending_request, Flow, FlowAt
      <4>2. th[t].id # th[u].id
        BY <1>0, <3>1, <4>1 DEF Adding
      <4> QED BY <1>0, <3>1, <3>2, <3>3, <4>2 DEF Adding, Respond
    <3>4. CASE responses' = responses
      BY <1>0, <3>1, <3>2, <3>4 DEF Adding
    <3> QED BY <3>3, <3>4, Frames
  <2> QED BY <2>1, <2>2
<1>4. ASSUME NEW u \in Threads, NEW v \in Threads, Adds(u)', Adds(v)', th'[u].id = th'[v].id
      PROVE  u = v
  <2>1. CASE NextRequestId(t)
    <3>1. th'[t].id = last_pending_request_id_val + 1
      BY <1>0, <2>1 DEF NextRequestId, TypeOK
    <3>2. \A w \in Threads : w # t /\ Adds(w)' =>
            Adds(w) /\ th'[w].id = th[w].id /\ th[w].id \in 1 .. last_pending_request_id_val
      BY <1>0, <1>2 DEF Adding
    <3> QED BY <1>0, <1>4, <3>1, <3>2 DEF Adding, TypeOK
  <2>2. CASE ~NextRequestId(t)
    BY <1>0, <1>2, <1>4, <2>2 DEF Adding
  <2> QED BY <2>1, <2>2
<1>5. ASSUME NEW u \in Threads, th'[u].fn = "negotiate", th'[u].at = "respond"
      PROVE  /\ pending_requests'[SlotOf(th'[u].id)].id_val = th'[u].id =>
                  pending_requests'[SlotOf(th'[u].id)].hkdf_prk = th'[u].prk
             /\ \/ pending_requests'[SlotOf(th'[u].id)].id_val = th'[u].id
                \/ \E x \in taken' : x.id = th'[u].id
                \/ last_pending_request_id_val' >= th'[u].id + TableSize
  <2>1. CASE u = t
    <3>0. sgxsd_enclave_add_pending_request(t)
      BY <1>5, <2>1, Becomes
    <3>1. th'[t].id = th[t].id /\ th'[t].prk = th[t].prk
      BY <1>0, <3>0 DEF sgxsd_enclave_add_pending_request, Goto, TypeOK
    <3>2. th[t].id \in Nat
      BY <1>0 DEF TypeOK, Local
    <3>3. SlotOf(th[t].id) \in Slots
      BY <3>2, SlotInRange
    <3> QED BY <1>0, <2>1, <3>0, <3>1, <3>3 DEF sgxsd_enclave_add_pending_request, WriteRequest, TypeOK
  <2>2. CASE u # t
    <3>1. th'[u] = th[u]
      BY <2>2, Frames
    <3>2. /\ th[u].id \in 1 .. last_pending_request_id_val
          /\ pending_requests[SlotOf(th[u].id)].id_val = th[u].id =>
               pending_requests[SlotOf(th[u].id)].hkdf_prk = th[u].prk
          /\ \/ pending_requests[SlotOf(th[u].id)].id_val = th[u].id
             \/ \E x \in taken : x.id = th[u].id
             \/ last_pending_request_id_val >= th[u].id + TableSize
      BY <1>0, <1>5, <3>1 DEF Adding
    <3>3. sgxsd_enclave_add_pending_request(t) => th[t].id # th[u].id
      BY <1>0, <1>5, <2>2, <3>1 DEF sgxsd_enclave_add_pending_request, Adding
    <3> QED BY <3>1, <3>2, <3>3, TableKeeps
  <2> QED BY <2>1, <2>2
<1> QED BY <1>1, <1>3, <1>4, <1>5 DEF Adding

LEMMA PendingStep ==
  ASSUME IInv, NEW t \in Threads, Ecall(t) \/ Step(t) PROVE PendingUntilReplaced'
<1>0. TypeOK /\ Flow /\ Issued /\ Adding /\ PendingUntilReplaced
  BY DEF IInv
<1>1. ASSUME NEW r \in responses
      PROVE  \/ pending_requests'[SlotOf(r.id)] = [id_val |-> r.id, hkdf_prk |-> r.prk]
             \/ \E x \in taken' : x.id = r.id
             \/ last_pending_request_id_val' >= r.id + TableSize
  <2>1. r.id \in 1 .. last_pending_request_id_val
    BY <1>0 DEF Issued
  <2>2. sgxsd_enclave_add_pending_request(t) => th[t].id # r.id
    BY <1>0 DEF Adding, sgxsd_enclave_add_pending_request
  <2>3. \/ pending_requests[SlotOf(r.id)] = [id_val |-> r.id, hkdf_prk |-> r.prk]
        \/ \E x \in taken : x.id = r.id
        \/ last_pending_request_id_val >= r.id + TableSize
    BY <1>0 DEF PendingUntilReplaced
  <2>4. \/ pending_requests'[SlotOf(r.id)].id_val = r.id
        \/ \E x \in taken' : x.id = r.id
        \/ last_pending_request_id_val' >= r.id + TableSize
    BY <2>1, <2>2, <2>3, TableKeeps
  <2>5. pending_requests'[SlotOf(r.id)].id_val = r.id =>
          pending_requests'[SlotOf(r.id)] = [id_val |-> r.id, hkdf_prk |-> r.prk]
    <3>1. SUFFICES ASSUME pending_requests'[SlotOf(r.id)].id_val = r.id
                   PROVE  pending_requests'[SlotOf(r.id)] = [id_val |-> r.id, hkdf_prk |-> r.prk]
      OBVIOUS
    <3>2. pending_requests'[SlotOf(r.id)] = pending_requests[SlotOf(r.id)]
      BY <2>1, <2>2, <3>1, TableKeeps
    <3>3. pending_requests[SlotOf(r.id)].hkdf_prk = r.prk
      BY <1>0, <3>1, <3>2 DEF Issued
    <3>4. SlotOf(r.id) \in Slots
      BY <1>0, <2>1, SlotInRange DEF TypeOK
    <3> QED BY <1>0, <3>1, <3>2, <3>3, <3>4 DEF TypeOK
  <2> QED BY <2>4, <2>5
<1>2. CASE Respond(t)
  <2> DEFINE q == [id |-> th[t].id, prk |-> th[t].prk]
  <2>1. /\ UNCHANGED <<pending_requests, last_pending_request_id_val, taken>>
        /\ responses' \in {responses, responses \cup {q}}
        /\ th[t].at = "respond" /\ th[t].fn = "negotiate"
    BY <1>0, <1>2 DEF Respond, Flow, FlowAt
  <2>2. SlotOf(th[t].id) \in Slots
    BY <1>0, <2>1, SlotInRange DEF Adding, TypeOK
  <2>3. \/ pending_requests[SlotOf(q.id)] = [id_val |-> q.id, hkdf_prk |-> q.prk]
        \/ \E x \in taken : x.id = q.id
        \/ last_pending_request_id_val >= q.id + TableSize
    BY <1>0, <2>1, <2>2 DEF Adding, TypeOK
  <2> HIDE DEF q
  <2> QED BY <1>1, <2>1, <2>3 DEF PendingUntilReplaced
<1>3. CASE responses' = responses
  BY <1>1, <1>3 DEF PendingUntilReplaced
<1> QED BY <1>2, <1>3, Frames


LEMMA FoundStep ==
  ASSUME IInv, NEW t \in Threads, Ecall(t) \/ Step(t) PROVE FoundInTable'
<1>0. TypeOK /\ FoundInTable
  BY DEF IInv
<1>1. SUFFICES ASSUME NEW u \in Threads, th'[u].fn \in {"call", "fingerprint"},
                      th'[u].at = "table2"
               PROVE  /\ pending_requests'[SlotOf(th'[u].id)].id_val = th'[u].id
                      /\ pending_requests'[SlotOf(th'[u].id)].hkdf_prk = th'[u].prk
  BY DEF FoundInTable
<1>2. CASE u = t
  <2>1. RequestFound(t)
    BY <1>1, <1>2, Becomes
  <2>2. /\ th'[t].id = th[t].id /\ th'[t].prk = pending_requests[SlotOf(th[t].id)].hkdf_prk
        /\ pending_requests' = pending_requests /\ Found(t)
    BY <1>0, <2>1 DEF RequestFound, TypeOK, tableVars
  <2> QED BY <1>2, <2>2 DEF Found
<1>3. CASE u # t
  <2>1. th'[u] = th[u]
    BY <1>3, Frames
  <2>2. pending_requests' = pending_requests
    BY <1>1, <1>3, <2>1, TableHeld DEF TablePlaces
  <2> QED BY <1>0, <1>1, <2>1, <2>2 DEF FoundInTable
<1> QED BY <1>2, <1>3

LEMMA HandlingStep ==
  ASSUME IInv, NEW t \in Threads, Ecall(t) \/ Step(t) PROVE Handling'
<1>0. TypeOK /\ Handling /\ Replied
  BY DEF IInv
<1> DEFINE Handles1(u) == th[u].fn = "call" /\ th[u].at = "callback"
<1>1. taken \subseteq taken'
  BY Frames DEF sgxsd_enclave_remove_pending_request
<1>2. CASE sgxsd_enclave_remove_pending_request(t)
  <2>0. /\ replies' = replies /\ th'[t].id = th[t].id
        /\ taken' = taken \cup {[id |-> th[t].id, nth |-> Cardinality(taken)]}
    BY <1>0, <1>2 DEF sgxsd_enclave_remove_pending_request, Decrypt, Goto, serverVars, TypeOK
  <2>1. /\ \E x \in taken' : x.id = th[t].id
        /\ \A x \in taken : x.id # th[t].id
    <3> DEFINE y == [id |-> th[t].id, nth |-> Cardinality(taken)]
    <3>1. y \in taken' /\ y.id = th[t].id
      BY <2>0
    <3> HIDE DEF y
    <3> QED BY <1>2, <3>1, Removing
  <2>2. \A u \in Threads : u # t => th'[u] = th[u] /\ (Handles1(u) => th[u].id # th[t].id)
    BY <1>0, <2>1, Frames DEF Handling
  <2>3. \A x \in replies : x.id # th[t].id
    BY <1>0, <2>1 DEF Replied
  <2> QED BY <1>0, <1>1, <2>0, <2>1, <2>2, <2>3 DEF Handling
<1>3. CASE Replies(t)
  <2>1. /\ Handles1(t) /\ th[t].from /\ th'[t].id = th[t].id /\ th'[t].from = FALSE
        /\ th'[t].fn = th[t].fn /\ th'[t].at = th[t].at
        /\ \/ replies' = replies
           \/ replies' = replies \cup {[id |-> th[t].id, nth |-> Cardinality(replies)]}
        /\ taken' = taken
    BY <1>0, <1>3 DEF Replies, TypeOK, Local, tableVars
  <2>2. \A u \in Threads : u # t => th'[u] = th[u] /\ (Handles1(u) => th[u].id # th[t].id)
    BY <1>0, <2>1, Frames DEF Handling
  <2> QED BY <1>0, <2>1, <2>2 DEF Handling
<1>4. CASE ~sgxsd_enclave_remove_pending_request(t) /\ ~Replies(t)
  <2>1. replies' = replies
    BY <1>4, Frames
  <2>2. \A u \in Threads : Handles1(u)' => u # t /\ th'[u] = th[u] /\ Handles1(u)
    BY <1>4, Becomes, Frames
  <2> QED BY <1>0, <1>1, <2>1, <2>2 DEF Handling
<1> QED BY <1>2, <1>3, <1>4

LEMMA OwnSecretStep ==
  ASSUME IInv, NEW t \in Threads, Ecall(t) \/ Step(t) PROVE OwnSecret'
<1>0. TypeOK /\ Flow /\ Issued /\ Adding /\ Looking /\ OwnSecret
  BY DEF IInv
<1>1. SUFFICES ASSUME NEW u \in Threads, th'[u].from, NEW r \in responses', r.id = th'[u].id
               PROVE  r.prk = th'[u].prk
  BY DEF OwnSecret
<1>2. CASE u = t /\ RequestFound(t)
  <2>1. /\ th'[t].id = th[t].id /\ th'[t].prk = pending_requests[SlotOf(th[t].id)].hkdf_prk
        /\ responses' = responses /\ pending_requests[SlotOf(th[t].id)].id_val = th[t].id
    BY <1>0, <1>2 DEF RequestFound, Found, TypeOK, tableVars
  <2> QED BY <1>0, <1>1, <1>2, <2>1 DEF Issued
<1>3. CASE ~(u = t /\ RequestFound(t))
  <2>1. th[u].from /\ th'[u].id = th[u].id /\ th'[u].prk = th[u].prk
    BY <1>1, <1>3, Becomes, Frames
  <2>2. CASE r \in responses
    BY <1>0, <1>1, <2>1, <2>2 DEF OwnSecret
  <2>3. CASE r \notin responses
    <3>1. Respond(t) /\ r = [id |-> th[t].id, prk |-> th[t].prk]
      BY <1>1, <2>3, Frames DEF Respond
    <3>2. /\ r.id \in 1 .. last_pending_request_id_val
          /\ \A q \in responses : q.id # r.id
      BY <1>0, <3>1 DEF Respond, Flow, FlowAt, Adding
    <3>3. th[u].id = 0 \/ \E q \in responses : q.id = th[u].id
      BY <1>0, <2>1 DEF Flow, FlowAt, Looking
    <3> QED BY <1>0, <1>1, <2>1, <3>2, <3>3 DEF TypeOK
  <2> QED BY <2>2, <2>3
<1> QED BY <1>2, <1>3

--------------------------------------------------------------------------------
\* The key pairs

LEMMA DrawnStep ==
  ASSUME IInv, NEW t \in Threads, Ecall(t) \/ Step(t) PROVE Drawn'
<1>0. TypeOK /\ Flow /\ RandLock /\ Drawn /\ Known
  BY DEF IInv
<1> DEFINE Nego(u) == th[u].fn = "negotiate" /\ th[u].at \in AfterDraw
<1>1. rand_state \in Nat /\ rand_state' \in {rand_state, rand_state + 1}
  <2>1. CASE sgxsd_enclave_generate_curve25519_keypair(t)
    BY <1>0, <2>1 DEF sgxsd_enclave_generate_curve25519_keypair, sgxsd_enclave_read_rand, Drawn,
       TypeOK
  <2> QED BY <1>0, <2>1, Draws DEF TypeOK
<1>2. ASSUME NEW u \in Threads, th'[u].at = "rand2"
      PROVE  th'[u].key = rand_state' + 1
  <2>1. CASE u = t
    <3>1. ReadRand(t)
      BY <1>2, <2>1, Draws
    <3>2. th'[t].key = rand_state + 1 /\ rand_state' = rand_state
      BY <1>0, <3>1 DEF ReadRand, TypeOK
    <3> QED BY <2>1, <3>2
  <2>2. CASE u # t
    <3>1. th'[u] = th[u]
      BY <2>2, Frames
    <3>2. th[t].at # "rand2"
      BY <1>0, <1>2, <2>2, <3>1 DEF RandLock, RandPlaces
    <3>3. rand_state' = rand_state
      BY <3>2, Draws DEF sgxsd_enclave_generate_curve25519_keypair, sgxsd_enclave_read_rand
    <3> QED BY <1>0, <1>2, <3>1, <3>3 DEF Drawn
  <2> QED BY <2>1, <2>2
<1>3. CASE sgxsd_enclave_generate_curve25519_keypair(t)
  <2>1. /\ th'[t].key = rand_state + 1 /\ rand_state' = rand_state + 1
        /\ responses' = responses
        /\ th'[t].fn = "negotiate" => th'[t].at \in {"keys.lock", "keys"}
    BY <1>0, <1>3 DEF sgxsd_enclave_generate_curve25519_keypair, sgxsd_enclave_read_rand, Drawn,
       Flow, FlowAt, Goto, TypeOK, tableVars, RandPlaces
  <2>2. \A u \in Threads : u # t => th'[u] = th[u]
    BY Frames
  <2>3. \A u \in Threads : Nego(u) => th[u].key <= rand_state
    BY <1>0 DEF Drawn
  <2>4. \A u \in Threads : th[u].key \in Nat
    BY <1>0 DEF TypeOK, Local
  <2>5. \A r \in responses : r.prk[1] \in Nat /\ r.prk[1] <= rand_state
    BY <1>0 DEF Drawn, TypeOK
  <2>6. ASSUME NEW u \in Threads, Nego(u)'
        PROVE  /\ th'[u].key <= rand_state'
               /\ \A r \in responses' : r.prk[1] # th'[u].key
               /\ th'[u].at \notin {"keys.lock", "keys"} =>
                    th'[u].prk[1] = th'[u].key /\ th'[u].prk[2] \in known'
    <3>1. CASE u = t
      BY <1>1, <2>1, <2>5, <2>6, <3>1
    <3>2. CASE u # t
      BY <1>0, <1>1, <2>1, <2>2, <2>3, <2>4, <2>6, <3>2, Draws DEF Drawn
    <3> QED BY <3>1, <3>2
  <2>7. ASSUME NEW u \in Threads, NEW v \in Threads, Nego(u)', Nego(v)', th'[u].key = th'[v].key
        PROVE  u = v
    BY <1>0, <1>1, <2>1, <2>2, <2>3, <2>4, <2>7 DEF Drawn
  <2>8. /\ \A r \in responses' : r.prk[1] <= rand_state' /\ r.prk[2] \in known'
        /\ \A r, s \in responses' : r.prk[1] = s.prk[1] => r = s
    <3>1. known \subseteq known'
      BY <1>3, Draws
    <3>2. /\ \A r \in responses : r.prk[2] \in known
          /\ \A r, s \in responses : r.prk[1] = s.prk[1] => r = s
      BY <1>0 DEF Drawn
    <3> QED BY <1>1, <2>1, <2>5, <3>1, <3>2
  <2> QED BY <1>2, <2>6, <2>7, <2>8 DEF Drawn
<1>4. CASE ~sgxsd_enclave_generate_curve25519_keypair(t)
  <2>1. rand_state' = rand_state /\ known \subseteq known'
    BY <1>4, Draws
  <2>2. ASSUME NEW u \in Threads, Nego(u)'
        PROVE  /\ Nego(u) /\ th'[u].key = th[u].key
               /\ th'[u].at \notin {"keys.lock", "keys"} =>
                    th'[u].prk[1] = th'[u].key /\ th'[u].prk[2] \in known'
    <3>1. CASE u = t /\ CopyStaticKeypair(t)
      BY <1>0, <3>1 DEF CopyStaticKeypair, TypeOK, Known, AfterDraw, Flow, FlowAt, nodeVars
    <3>2. CASE u = t /\ ~CopyStaticKeypair(t)
      BY <1>0, <1>4, <2>1, <2>2, <3>2, Draws DEF Drawn
    <3>3. CASE u # t
      BY <1>0, <2>1, <2>2, <3>3, Frames DEF Drawn
    <3> QED BY <3>1, <3>2, <3>3
  <2>3. CASE responses' = responses
    BY <1>0, <1>2, <2>1, <2>2, <2>3 DEF Drawn
  <2>4. CASE Respond(t)
    <3> DEFINE q == [id |-> th[t].id, prk |-> th[t].prk]
    <3>1. /\ responses' \in {responses, responses \cup {q}} /\ Nego(t) /\ ~Nego(t)'
          /\ q.prk[1] = th[t].key /\ q.prk[2] \in known
      BY <1>0, <2>4 DEF Respond, Flow, FlowAt, AfterDraw, Drawn, Return, Outside, TypeOK
    <3>2. th[t].key <= rand_state /\ \A r \in responses : r.prk[1] # th[t].key
      BY <1>0, <3>1 DEF Drawn
    <3>3. \A u \in Threads : Nego(u)' => th[u].key # th[t].key
      BY <1>0, <2>2, <3>1 DEF Drawn
    <3> HIDE DEF q
    <3>4. /\ \A r \in responses' : r.prk[1] <= rand_state' /\ r.prk[2] \in known'
          /\ \A r, s \in responses' : r.prk[1] = s.prk[1] => r = s
      BY <1>0, <2>1, <3>1, <3>2 DEF Drawn
    <3>5. \A u \in Threads : Nego(u)' =>
            th'[u].key <= rand_state' /\ \A r \in responses' : r.prk[1] # th'[u].key
      BY <1>0, <2>1, <2>2, <3>1, <3>3 DEF Drawn
    <3>6. \A u, v \in Threads : Nego(u)' /\ Nego(v)' /\ th'[u].key = th'[v].key => u = v
      BY <1>0, <2>2 DEF Drawn
    <3> QED BY <1>2, <2>2, <3>4, <3>5, <3>6 DEF Drawn
  <2> QED BY <2>3, <2>4, Frames
<1> QED BY <1>3, <1>4

--------------------------------------------------------------------------------
LEMMA FiniteStep ==
  ASSUME IInv, NEW t \in Threads, Ecall(t) \/ Step(t) PROVE FiniteGhosts'
<1>1. /\ taken' = taken \/ \E x : taken' = taken \cup {x}
      /\ replies' = replies \/ \E x : replies' = replies \cup {x}
  BY Frames DEF sgxsd_enclave_remove_pending_request, Replies
<1> QED BY <1>1, FS_AddElement DEF IInv, FiniteGhosts

LEMMA InitInductive == Init => IInv
<1> SUFFICES ASSUME Init PROVE IInv
  OBVIOUS
<1>1. Outside \in Local /\ NoRequest \in [id_val : Nat, hkdf_prk : Nat \X Nat]
  BY DEF Outside, Local, Places, Fns, NoPrk, NoRequest
<1>2. TypeOK
  BY <1>1 DEF Init, TypeOK
<1>3. FiniteGhosts
  BY FS_EmptySet DEF Init, FiniteGhosts
<1>4. Flow
  <2>1. ASSUME NEW t \in Threads PROVE FlowAt(t)
    <3>1. th[t] = Outside
      BY DEF Init
    <3> QED BY <3>1, HandleAssumption DEF FlowAt, Outside, ServerFns, RandPlaces, TablePlaces
  <2> QED BY <2>1 DEF Flow
<1>5. RandLock /\ TableLock /\ ServerLock
  BY DEF Init, Outside, RandLock, TableLock, ServerLock, RandPlaces, TablePlaces, InServer
<1>6. Entries
  BY DEF Init, Entries, NoRequest
<1>7. /\ TakenGone /\ TakenOnce /\ Issued /\ Adding /\ Looking /\ FoundInTable /\ Handling
      /\ Replied /\ OwnSecret /\ PendingUntilReplaced
  BY DEF Init, Outside, TakenGone, TakenOnce, Issued, Adding, Looking, FoundInTable, Handling,
     Replied, OwnSecret, PendingUntilReplaced
<1>8. Drawn /\ Known
  BY DEF Init, Outside, Drawn, Known, RandPlaces
<1> QED BY <1>2, <1>3, <1>4, <1>5, <1>6, <1>7, <1>8 DEF IInv

LEMMA StutterInductive == IInv /\ UNCHANGED vars => IInv'
<1> SUFFICES ASSUME IInv, UNCHANGED vars PROVE IInv'
  OBVIOUS
<1>0. /\ node_initialized' = node_initialized /\ locks' = locks /\ rand_state' = rand_state
      /\ dh_keypair' = dh_keypair /\ new_dh_keypair' = new_dh_keypair /\ known' = known
      /\ pending_requests' = pending_requests
      /\ last_pending_request_id_val' = last_pending_request_id_val
      /\ responses' = responses /\ taken' = taken /\ replies' = replies
      /\ valid' = valid /\ erased' = erased /\ calls' = calls /\ th' = th
  BY Zenon DEF vars, nodeVars, tableVars, serverVars
<1>1. TypeOK' /\ FiniteGhosts'
  BY Zenon, <1>0 DEF IInv, TypeOK, FiniteGhosts
<1>2. Flow'
  BY Zenon, <1>0 DEF IInv, Flow, FlowAt
<1>3. RandLock' /\ TableLock' /\ ServerLock'
  BY Zenon, <1>0 DEF IInv, RandLock, TableLock, ServerLock
<1>4. Entries' /\ TakenGone' /\ TakenOnce' /\ Issued'
  BY Zenon, <1>0 DEF IInv, Entries, TakenGone, TakenOnce, Issued
<1>5. Adding'
  BY Zenon, <1>0 DEF IInv, Adding
<1>6. Looking' /\ FoundInTable' /\ Handling' /\ Replied'
  BY Zenon, <1>0 DEF IInv, Looking, FoundInTable, Handling, Replied
<1>7. Drawn' /\ Known'
  BY Zenon, <1>0 DEF IInv, Drawn, Known
<1>8. OwnSecret' /\ PendingUntilReplaced'
  BY Zenon, <1>0 DEF IInv, OwnSecret, PendingUntilReplaced
<1> QED BY Zenon, <1>1, <1>2, <1>3, <1>4, <1>5, <1>6, <1>7, <1>8 DEF IInv

LEMMA NextInductive == IInv /\ [Next]_vars => IInv'
<1>1. ASSUME IInv, NEW t \in Threads, Ecall(t) \/ Step(t) PROVE IInv'
  BY Zenon, <1>1, TypeStep, FiniteStep, FlowStep, RandLockStep, TableLockStep, ServerLockStep,
     EntriesStep, TakenStep, IssuedStep, AddingStep, LookingStep, FoundStep, HandlingStep,
     RepliedStep, DrawnStep, KnownStep, OwnSecretStep, PendingStep DEF IInv
<1> QED BY <1>1, StutterInductive DEF Next

\* The inductive invariant holds in every behaviour.
THEOREM Invariance == Spec => []IInv
BY InitInductive, NextInductive, PTL DEF Spec

\* The globals and the threads keep their types through every ecall.
THEOREM TypesKept == Spec => []TypeOK
<1>1. IInv => TypeOK
  BY DEF IInv
<1> QED BY <1>1, Invariance, PTL

\* A request is taken and answered at most once, however many threads present its id.
THEOREM AnsweredAtMostOnce == Spec => []AnsweredOnce
<1>1. IInv => AnsweredOnce
  BY DEF IInv, TakenOnce, Replied, AnsweredOnce
<1> QED BY <1>1, Invariance, PTL

\* A call works with the secret its client negotiated.
THEOREM SecretIsOwn == Spec => []OwnSecret
<1>1. IInv => OwnSecret
  BY DEF IInv
<1> QED BY <1>1, Invariance, PTL

\* A request stays in the table until it is taken or 2^Order newer ones were added.
THEOREM StaysPending == Spec => []PendingUntilReplaced
<1>1. IInv => PendingUntilReplaced
  BY DEF IInv
<1> QED BY <1>1, Invariance, PTL

\* No two requests have the same secret, and the static key in it is known.
THEOREM SecretsAreFresh == Spec => []SecretsFresh
<1>1. IInv => SecretsFresh
  <2>1. ASSUME IInv, NEW r \in responses, NEW s \in responses
        PROVE  r.prk[2] \in known /\ (r.prk = s.prk => r = s)
    BY <2>1 DEF IInv, Drawn
  <2> QED BY <2>1 DEF SecretsFresh
<1> QED BY <1>1, Invariance, PTL

\* A server that was never stopped is used by one thread at a time.
THEOREM ServerExclusive == Spec => []ExclusiveUntilStopped
<1>1. IInv => ExclusiveUntilStopped
  BY DEF IInv, ServerLock, ExclusiveUntilStopped
<1> QED BY <1>1, Invariance, PTL
================================================================================
