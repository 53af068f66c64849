--------------------------- MODULE EnclaveServerInv ----------------------------
(******************************************************************************)
(* The inductive invariant of the ecalls, and what an ecall, a step of the    *)
(* node's initialisation and a step with the key pairs do to the thread that  *)
(* takes it: its locals keep their types and its place goes with its function.*)
(******************************************************************************)
EXTENDS EnclaveServer, FiniteSetTheorems, TLAPS

ServerFns == {"start", "stop", "call", "fingerprint"}
RandPlaces == {"rand", "rand2"}
TablePlaces == {"table", "table2"}

\* The function a thread is in goes with its place.
FlowAt(t) ==
  /\ th[t].h \in Handles <=> th[t].fn \in ServerFns
  /\ th[t].at \in {"init.lock", "init", "init2", "init3"} => th[t].fn = "node_init"
  /\ th[t].at \in {"server.lock", "server", "callback", "erase", "server.unlock"}
       => th[t].fn \in ServerFns
  /\ th[t].at = "erase" => th[t].fn = "stop"
  /\ th[t].at \in RandPlaces \cup {"rand.lock"} =>
       \/ th[t].fn = "node_init" /\ th[t].back \in {"init2", "init3"}
       \/ th[t].fn = "report" /\ th[t].back = "report"
       \/ th[t].fn = "negotiate" /\ th[t].back = "keys.lock"
  /\ th[t].at = "report" => th[t].fn = "report"
  /\ th[t].at \in {"keys", "keys.lock"} => th[t].fn \in {"report", "quote", "negotiate"}
  /\ th[t].at \in TablePlaces \cup {"table.lock"}
       => th[t].fn \in {"negotiate", "call", "fingerprint"}
  /\ th[t].at = "respond" => th[t].fn = "negotiate"
  /\ th[t].from => th[t].fn \in {"call", "fingerprint"}
  /\ th[t].fn \in {"report", "quote", "negotiate"} => node_initialized
Flow == \A t \in Threads : FlowAt(t)

\* Who is at a place under a lock holds it, alone.
RandLock ==
  \A t, u \in Threads : th[t].at \in RandPlaces =>
    locks["rand"] /\ (th[u].at \in RandPlaces => t = u)
TableLock ==
  \A t, u \in Threads : th[t].at \in TablePlaces =>
    locks["table"] /\ (th[u].at \in TablePlaces => t = u)
ServerLock ==
  \A t, u \in Threads : th[t].at \in InServer /\ th[t].h \in Handles \ erased =>
    locks[th[t].h] /\ (th[u].at \in InServer /\ th[u].h = th[t].h => t = u)

\* The table: ids are not larger than the last, at their slot, and not those taken.
Entries ==
  \A s \in Slots :
    /\ pending_requests[s].id_val <= last_pending_request_id_val
    /\ pending_requests[s].id_val # 0 => SlotOf(pending_requests[s].id_val) = s
TakenGone ==
  \A x \in taken : /\ x.id \in 1 .. last_pending_request_id_val
                   /\ pending_requests[SlotOf(x.id)].id_val # x.id
TakenOnce == \A x, y \in taken : x.id = y.id => x = y

\* Every id a client was told of has one secret, which is the one in the table.
Issued ==
  \A r \in responses :
    /\ r.id \in 1 .. last_pending_request_id_val
    /\ pending_requests[SlotOf(r.id)].id_val = r.id =>
         pending_requests[SlotOf(r.id)].hkdf_prk = r.prk
    /\ \A s \in responses : r.id = s.id => r = s

\* A request being added has an id of its own, nowhere used yet.
Adding ==
  \A t \in Threads : th[t].fn = "negotiate" =>
    /\ th[t].at = "table2" =>
         /\ th[t].id = last_pending_request_id_val
         /\ \A s \in Slots : pending_requests[s].id_val # th[t].id
         /\ \A x \in taken : x.id # th[t].id
    /\ th[t].at \in {"table2", "respond"} =>
         /\ th[t].id \in 1 .. last_pending_request_id_val
         /\ \A r \in responses : r.id # th[t].id
         /\ \A u \in Threads :
              th[u].fn = "negotiate" /\ th[u].at \in {"table2", "respond"} /\ th[u].id = th[t].id
                => t = u
    /\ th[t].at = "respond" =>
         /\ pending_requests[SlotOf(th[t].id)].id_val = th[t].id =>
              pending_requests[SlotOf(th[t].id)].hkdf_prk = th[t].prk
         /\ \/ pending_requests[SlotOf(th[t].id)].id_val = th[t].id
            \/ \E x \in taken : x.id = th[t].id
            \/ last_pending_request_id_val >= th[t].id + TableSize

\* A request being looked up was given to a client; where it was found it is in the table.
Looking ==
  \A t \in Threads : th[t].fn \in {"call", "fingerprint"} =>
    /\ th[t].id = 0 \/ \E r \in responses : r.id = th[t].id
    /\ th[t].at \in TablePlaces \cup {"table.lock"} => th[t].id # 0
FoundInTable ==
  \A t \in Threads : th[t].fn \in {"call", "fingerprint"} /\ th[t].at = "table2" =>
    /\ pending_requests[SlotOf(th[t].id)].id_val = th[t].id
    /\ pending_requests[SlotOf(th[t].id)].hkdf_prk = th[t].prk

\* A call that is being handled has taken its request, it alone, and has not yet answered.
Handling ==
  \A t \in Threads : th[t].fn = "call" /\ th[t].at = "callback" =>
    /\ \E x \in taken : x.id = th[t].id
    /\ \A u \in Threads :
         th[u].fn = "call" /\ th[u].at = "callback" /\ th[u].id = th[t].id => t = u
    /\ th[t].from => \A x \in replies : x.id # th[t].id
Replied ==
  /\ \A x \in replies : \E y \in taken : y.id = x.id
  /\ \A x, y \in replies : x.id = y.id => x = y

\* The key pairs: a draw is not larger than the state, and is used by one request.
AfterDraw == {"keys.lock", "keys", "table.lock", "table", "table2", "respond"}
Drawn ==
  /\ \A t \in Threads :
       /\ th[t].at = "rand2" => th[t].key = rand_state + 1
       /\ th[t].fn = "negotiate" /\ th[t].at \in AfterDraw =>
            /\ th[t].key <= rand_state
            /\ \A r \in responses : r.prk[1] # th[t].key
            /\ th[t].at \notin {"keys.lock", "keys"} =>
                 th[t].prk[1] = th[t].key /\ th[t].prk[2] \in known
            /\ \A u \in Threads :
                 th[u].fn = "negotiate" /\ th[u].at \in AfterDraw /\ th[u].key = th[t].key
                   => t = u
  /\ \A r \in responses : r.prk[1] <= rand_state /\ r.prk[2] \in known
  /\ \A r, s \in responses : r.prk[1] = s.prk[1] => r = s
Known ==
  /\ node_initialized => dh_keypair \in known /\ new_dh_keypair \in known
  /\ \A t \in Threads :
       /\ th[t].fn = "report" /\ th[t].at \in {"keys.lock", "keys"} => th[t].key \in known
       /\ th[t].at \in {"init2", "init3"} => dh_keypair \in known
       /\ th[t].at \in RandPlaces \cup {"rand.lock"} /\ th[t].back = "init3"
            => dh_keypair \in known
       /\ th[t].at = "init3" => new_dh_keypair \in known

FiniteGhosts == IsFiniteSet(taken) /\ IsFiniteSet(replies)

\* The inductive invariant.
IInv ==
  /\ TypeOK /\ FiniteGhosts /\ Flow
  /\ RandLock /\ TableLock /\ ServerLock
  /\ Entries /\ TakenGone /\ TakenOnce /\ Issued /\ Adding
  /\ Looking /\ FoundInTable /\ Handling /\ Replied
  /\ Drawn /\ Known
  /\ OwnSecret /\ PendingUntilReplaced

--------------------------------------------------------------------------------
\* The mask selects a slot of the table.
LEMMA SlotInRange == \A id \in Nat : SlotOf(id) \in Slots
BY TableAssumption DEF SlotOf, Slots, TableSize

\* Two ids of one slot are a table apart.
LEMMA SameSlot ==
  ASSUME NEW a \in Nat, NEW b \in Nat, a < b, SlotOf(a) = SlotOf(b)
  PROVE  b >= a + TableSize
<1> DEFINE N == 2^Order
<1>1. N \in Nat \ {0}
  BY TableAssumption
<1> HIDE DEF N
<1>2. a = N * (a \div N) + (a % N) /\ b = N * (b \div N) + (b % N)
  BY <1>1
<1>3. a \div N \in Int /\ b \div N \in Int /\ a % N = b % N
  BY <1>1 DEF SlotOf, TableSize, N
<1> DEFINE d == (b \div N) - (a \div N)
<1>4. b - a = N * d /\ d \in Int
  BY <1>1, <1>2, <1>3
<1> HIDE DEF d
<1>5. d >= 1
  BY <1>1, <1>4
<1>6. N * d >= N
  BY <1>1, <1>4, <1>5
<1> QED BY <1>1, <1>4, <1>6 DEF TableSize, N

--------------------------------------------------------------------------------
\* What a thread brings into the enclave: nothing drawn, nothing found.
Arrived(L) ==
  /\ L.from = FALSE
  /\ \/ L.at = "init.lock" /\ L.fn = "node_init"
     \/ L.at = "rand.lock" /\ L.fn = "report" /\ L.back = "report" /\ node_initialized
     \/ L.at = "rand.lock" /\ L.fn = "negotiate" /\ L.back = "keys.lock" /\ node_initialized
     \/ L.at = "keys.lock" /\ L.fn = "quote" /\ node_initialized
     \/ L.at = "server.lock" /\ L.fn \in ServerFns /\ L.h \in Handles
  /\ L.h \in Handles <=> L.fn \in ServerFns
  /\ L.id = 0 \/ \E r \in responses : r.id = L.id

Arrives(t) ==
  /\ th[t].at = "outside"
  /\ \E L \in Local : Arrived(L) /\ th' = [th EXCEPT ![t] = L]
  /\ calls' = calls + 1
  /\ UNCHANGED <<locks, rand_state, nodeVars, tableVars, serverVars>>

\* The ecalls differ in what the thread arrives with.
LEMMA EcallArrives ==
  ASSUME TypeOK, NEW t \in Threads, Ecall(t) PROVE Arrives(t)
<1> USE DEF TypeOK, Local, Places, Fns, Waits, Arrived, ServerFns, Outside, NoPrk
<1>1. ASSUME NEW M \in Local, Arrived(M), Enter(t, M) PROVE Arrives(t)
  BY Zenon, <1>1 DEF Enter, Arrives
<1>2. CASE sgxsd_enclave_node_init(t)
  <2> DEFINE M == [Outside EXCEPT !.at = "init.lock", !.fn = "node_init"]
  <2>1. M \in Local
    BY Zenon
  <2>2. Arrived(M)
    BY Zenon, HandleAssumption
  <2> QED BY Zenon, <1>1, <1>2, <2>1, <2>2 DEF sgxsd_enclave_node_init
<1>3. CASE sgxsd_enclave_get_next_report(t)
  <2> DEFINE M == [Outside EXCEPT !.at = "rand.lock", !.fn = "report", !.back = "report"]
  <2>1. M \in Local
    BY Zenon
  <2>2. Arrived(M)
    BY Zenon, <1>3, HandleAssumption DEF sgxsd_enclave_get_next_report
  <2> QED BY Zenon, <1>1, <1>3, <2>1, <2>2 DEF sgxsd_enclave_get_next_report
<1>4. CASE sgxsd_enclave_set_current_quote(t)
  <2> DEFINE M == [Outside EXCEPT !.at = "keys.lock", !.fn = "quote"]
  <2>1. M \in Local
    BY Zenon
  <2>2. Arrived(M)
    BY Zenon, <1>4, HandleAssumption DEF sgxsd_enclave_set_current_quote
  <2> QED BY Zenon, <1>1, <1>4, <2>1, <2>2 DEF sgxsd_enclave_set_current_quote
<1>5. CASE sgxsd_enclave_negotiate_request(t)
  <2> DEFINE M == [Outside EXCEPT !.at = "rand.lock", !.fn = "negotiate", !.back = "keys.lock"]
  <2>1. M \in Local
    BY Zenon
  <2>2. Arrived(M)
    BY Zenon, <1>5, HandleAssumption DEF sgxsd_enclave_negotiate_request
  <2> QED BY Zenon, <1>1, <1>5, <2>1, <2>2 DEF sgxsd_enclave_negotiate_request
<1>6. ASSUME NEW h \in Handles, NEW fn \in {"start", "stop"},
             Enter(t, [Outside EXCEPT !.at = "server.lock", !.fn = fn, !.h = h])
      PROVE  Arrives(t)
  <2> DEFINE M == [Outside EXCEPT !.at = "server.lock", !.fn = fn, !.h = h]
  <2>1. M \in Local
    BY Zenon
  <2>2. Arrived(M)
    OBVIOUS
  <2> HIDE DEF M
  <2> QED BY Zenon, <1>1, <2>1, <2>2, <1>6 DEF M
<1>7. ASSUME NEW h \in Handles, NEW r \in Ids, NEW msg \in {r.prk, NoPrk},
             NEW fn \in {"call", "fingerprint"},
             Enter(t, [Outside EXCEPT !.at = "server.lock", !.fn = fn, !.h = h, !.id = r.id,
                                      !.msg = msg])
      PROVE  Arrives(t)
  <2> DEFINE M == [Outside EXCEPT !.at = "server.lock", !.fn = fn, !.h = h, !.id = r.id,
                                  !.msg = msg]
  <2>1. r \in [id : Nat, prk : Nat \X Nat] /\ (r.id = 0 \/ \E q \in responses : q.id = r.id)
    BY DEF Ids
  <2>2. /\ r.id \in Nat /\ msg \in Nat \X Nat /\ NoPrk \in Nat \X Nat
        /\ fn \in Fns /\ "server.lock" \in Places
    BY <2>1
  <2> HIDE DEF NoPrk, Fns, Places
  <2>3. M \in Local
    BY Zenon, <2>2
  <2>4. Arrived(M)
    BY <2>1
  <2> QED BY Zenon, <1>1, <2>3, <2>4, <1>7
<1>8. ASSUME NEW h \in Handles, sgxsd_enclave_server_start(t, h) \/ sgxsd_enclave_server_stop(t, h)
      PROVE  Arrives(t)
  BY Zenon, <1>6, <1>8 DEF sgxsd_enclave_server_start, sgxsd_enclave_server_stop
<1>9. ASSUME NEW h \in Handles, NEW r \in Ids, NEW msg \in {r.prk, NoPrk},
             \/ sgxsd_enclave_server_call(t, h, r.id, msg)
             \/ sgxsd_enclave_ratelimit_fingerprint(t, h, r.id, msg)
      PROVE  Arrives(t)
  BY Zenon, <1>7, <1>9 DEF sgxsd_enclave_server_call, sgxsd_enclave_ratelimit_fingerprint
<1> QED BY <1>2, <1>3, <1>4, <1>5, <1>8, <1>9 DEF Ecall

\* reply and noreply erase the sender, and hand over one reply or none.
Replies(t) ==
  /\ th[t].at = "callback" /\ th[t].fn = "call" /\ th[t].from
  /\ \/ replies' = replies
     \/ replies' = replies \cup {[id |-> th[t].id, nth |-> Cardinality(replies)]}
  /\ th' = [th EXCEPT ![t].from = FALSE]
  /\ UNCHANGED <<locks, rand_state, calls, nodeVars, tableVars, valid, erased>>

LEMMA ReplyReplies ==
  ASSUME NEW t \in Threads, sgxsd_enclave_server_reply(t) \/ sgxsd_enclave_server_noreply(t)
  PROVE  Replies(t)
BY DEF sgxsd_enclave_server_reply, sgxsd_enclave_server_noreply, SendReply, Replies

--------------------------------------------------------------------------------
\* The types are kept.

LEMMA UpdateTyped ==
  ASSUME TypeOK, NEW t \in Threads, NEW L \in Local
  PROVE  [th EXCEPT ![t] = L] \in [Threads -> Local]
BY DEF TypeOK

LEMMA AtTyped ==
  ASSUME TypeOK, NEW t \in Threads, NEW at \in Places
  PROVE  [th EXCEPT ![t].at = at] \in [Threads -> Local]
<1> DEFINE L == [th[t] EXCEPT !.at = at]
<1>1. th[t] \in Local
  BY DEF TypeOK
<1>2. L \in Local
  BY <1>1 DEF Local
<1>3. [th EXCEPT ![t].at = at] = [th EXCEPT ![t] = L]
  OBVIOUS
<1> QED BY <1>2, <1>3, UpdateTyped

LEMMA OutsideTyped ==
  ASSUME TypeOK, NEW t \in Threads
  PROVE  [th EXCEPT ![t] = Outside] \in [Threads -> Local]
BY DEF TypeOK, Local, Outside, NoPrk, Places, Fns

LEMMA LocalStep ==
  ASSUME IInv, NEW t \in Threads, Ecall(t) \/ Step(t) PROVE th' \in [Threads -> Local]
<1>1. TypeOK /\ Flow /\ th[t] \in Local
  BY DEF IInv, TypeOK
<1>0. "rand.lock" \in Places /\ "rand2" \in Places /\ "table2" \in Places
  BY DEF Places, Waits
<1>2. ASSUME NEW at \in Places, Goto(t, at) PROVE th' \in [Threads -> Local]
  BY <1>1, <1>2, AtTyped DEF Goto
<1>3. ASSUME Return(t) PROVE th' \in [Threads -> Local]
  BY <1>1, <1>3, OutsideTyped DEF Return
<1>4. CASE Arrives(t)
  BY <1>1, <1>4, UpdateTyped DEF Arrives
<1>5. CASE sgxsd_spin_lock(t)
  <2>1. Locked(th[t].at) \in {"init", "rand", "keys", "table", "server"}
    BY DEF Locked
  <2>2. {"init", "rand", "keys", "table", "server"} \subseteq Places
    BY DEF Places
  <2> QED BY <1>2, <1>5, <2>1, <2>2 DEF sgxsd_spin_lock
<1>6. CASE \/ sgxsd_spin_unlock(t) \/ NodeInitFails(t) \/ NodeInitSucceeds(t) \/ ReportFails(t)
          \/ StoreNewKeypair(t) \/ SetCurrentKeypair(t) \/ Respond(t)
  BY <1>3, <1>6 DEF sgxsd_spin_unlock, NodeInitFails, NodeInitSucceeds, NodeInitReturns,
     ReportFails, StoreNewKeypair, SetCurrentKeypair, Respond
<1>7. CASE \/ ReportCreated(t) \/ sgxsd_enclave_add_pending_request(t) \/ RequestNotFound(t)
          \/ sgxsd_enclave_remove_pending_request(t) \/ sgxsd_enclave_get_pending_request(t)
          \/ sgxsd_enclave_server_start_locked(t) \/ ServerInit(t)
          \/ sgxsd_enclave_server_call_locked(t) \/ sgxsd_enclave_ratelimit_fingerprint_locked(t)
          \/ CallbackReturns(t) \/ StopChecks(t) \/ StopErases(t)
  <2>1. \E at \in {"keys.lock", "respond", "server.unlock", "callback", "table.lock", "erase"} :
          Goto(t, at)
    BY <1>7 DEF ReportCreated, sgxsd_enclave_add_pending_request, RequestNotFound,
       sgxsd_enclave_remove_pending_request, sgxsd_enclave_get_pending_request, Decrypt,
       sgxsd_enclave_server_start_locked, ServerInit, sgxsd_enclave_server_call_locked,
       sgxsd_enclave_ratelimit_fingerprint_locked, CallbackReturns, StopChecks, StopErases, Moves
  <2>2. {"keys.lock", "respond", "server.unlock", "callback", "table.lock", "erase"}
          \subseteq Places
    BY DEF Places, Waits
  <2> QED BY <1>2, <2>1, <2>2
<1>8. CASE sgxsd_enclave_generate_curve25519_keypair(t)
  <2>1. th[t].back \in {"init2", "init3", "report", "keys.lock"}
    BY <1>1, <1>8 DEF Flow, FlowAt, sgxsd_enclave_generate_curve25519_keypair, sgxsd_enclave_read_rand,
       RandPlaces
  <2>2. th[t].back \in Places
    BY <2>1 DEF Places, Waits
  <2> QED BY <1>2, <1>8, <2>2 DEF sgxsd_enclave_generate_curve25519_keypair, sgxsd_enclave_read_rand
<1>9. CASE NodeInitDraws(t)
  <2> DEFINE L == [th[t] EXCEPT !.at = "rand.lock",
                                !.back = IF th[t].at = "init" THEN "init2" ELSE "init3"]
  <2>1. L \in Local
    BY Zenon, <1>1, <1>0 DEF Local
  <2>2. th' = [th EXCEPT ![t] = L]
    BY Zenon, <1>9 DEF NodeInitDraws
  <2> QED BY <1>1, <2>1, <2>2, UpdateTyped
<1>10. CASE ReadRand(t)
  <2> DEFINE L == [th[t] EXCEPT !.key = rand_state + 1, !.at = "rand2"]
  <2>0. rand_state + 1 \in Nat /\ last_pending_request_id_val + 1 \in Nat
    BY <1>1 DEF TypeOK
  <2>1. L \in Local
    BY Zenon, <1>1, <1>0, <2>0 DEF Local
  <2>2. th' = [th EXCEPT ![t] = L]
    BY Zenon, <1>10 DEF ReadRand
  <2> QED BY <1>1, <2>1, <2>2, UpdateTyped
<1>11. CASE CopyStaticKeypair(t)
  <2> DEFINE L == [th[t] EXCEPT !.prk = <<th[t].key, dh_keypair>>, !.at = "table.lock"]
  <2>1. L \in Local
    BY Zenon, <1>1 DEF Local, Places, Waits, TypeOK
  <2>2. th' = [th EXCEPT ![t] = L]
    BY Zenon, <1>11 DEF CopyStaticKeypair
  <2> QED BY <1>1, <2>1, <2>2, UpdateTyped
<1>12. CASE NextRequestId(t)
  <2> DEFINE L == [th[t] EXCEPT !.id = last_pending_request_id_val + 1, !.at = "table2"]
  <2>0. rand_state + 1 \in Nat /\ last_pending_request_id_val + 1 \in Nat
    BY <1>1 DEF TypeOK
  <2>1. L \in Local
    BY Zenon, <1>1, <1>0, <2>0 DEF Local
  <2>2. th' = [th EXCEPT ![t] = L]
    BY Zenon, <1>12 DEF NextRequestId
  <2> QED BY <1>1, <2>1, <2>2, UpdateTyped
<1>13. CASE RequestFound(t)
  <2> DEFINE prk == pending_requests[SlotOf(th[t].id)].hkdf_prk
             L == [th[t] EXCEPT !.prk = prk, !.from = TRUE, !.at = "table2"]
  <2>1. prk \in Nat \X Nat
    BY <1>1, SlotInRange DEF TypeOK, Local
  <2>2. L \in Local
    BY Zenon, <1>1, <2>1 DEF Local, Places
  <2>3. th' = [th EXCEPT ![t] = L]
    BY Zenon, <1>13 DEF RequestFound
  <2> QED BY <1>1, <2>2, <2>3, UpdateTyped
<1>14. CASE Replies(t)
  <2> DEFINE L == [th[t] EXCEPT !.from = FALSE]
  <2>1. L \in Local
    BY Zenon, <1>1 DEF Local
  <2>2. th' = [th EXCEPT ![t] = L]
    BY <1>14 DEF Replies
  <2> QED BY <1>1, <2>1, <2>2, UpdateTyped
<1> QED
  BY <1>1, <1>4, <1>5, <1>6, <1>7, <1>8, <1>9, <1>10, <1>11, <1>12, <1>13, <1>14, EcallArrives,
     ReplyReplies
     DEF Step, sgxsd_enclave_node_init_locked, sgxsd_enclave_server_stop_locked


\* The other threads stay where they are; a thread that only moves keeps what it has, and
\* one that returns has nothing.
Others(t) == \A u \in Threads : u # t => th'[u] = th[u]
Keeps(t) ==
  /\ th'[t].fn = th[t].fn /\ th'[t].h = th[t].h /\ th'[t].id = th[t].id
  /\ th'[t].key = th[t].key /\ th'[t].back = th[t].back /\ th'[t].prk = th[t].prk
  /\ th'[t].from = th[t].from
Gone(t) ==
  /\ th'[t].at = "outside" /\ th'[t].fn = "none" /\ th'[t].h = "none" /\ th'[t].back = "none"
  /\ th'[t].from = FALSE

LEMMA Going ==
  ASSUME TypeOK, NEW t \in Threads, NEW at, Goto(t, at)
  PROVE  th'[t].at = at /\ Keeps(t) /\ Others(t)
<1>1. th \in [Threads -> Local] /\ th[t] \in Local
  BY DEF TypeOK
<1>2. th'[t] = [th[t] EXCEPT !.at = at] /\ Others(t)
  BY <1>1 DEF Goto, Others
<1> QED BY <1>1, <1>2 DEF Local, Keeps

LEMMA Returning ==
  ASSUME TypeOK, NEW t \in Threads, Return(t)
  PROVE  Gone(t) /\ Others(t)
BY DEF TypeOK, Return, Outside, Gone, Others

\* Who writes what.
WritesLocks(t) ==
  /\ locks' \in [LockNames -> BOOLEAN]
  /\ \/ sgxsd_spin_lock(t) /\ th[t].at = "rand.lock"
     \/ sgxsd_enclave_generate_curve25519_keypair(t)
     \/ locks'["rand"] = locks["rand"]
  /\ \/ sgxsd_spin_lock(t) /\ th[t].at = "table.lock"
     \/ th[t].at \in TablePlaces
     \/ locks'["table"] = locks["table"]
  /\ \A h \in Handles :
       \/ sgxsd_spin_lock(t) /\ th[t].at = "server.lock" /\ th[t].h = h
       \/ sgxsd_spin_unlock(t) /\ th[t].h = h
       \/ StopErases(t) /\ th[t].h = h
       \/ locks'[h] = locks[h]
Writes(t) ==
  /\ StopErases(t) \/ erased' = erased
  /\ sgxsd_enclave_generate_curve25519_keypair(t) \/ rand_state' = rand_state
  /\ \/ sgxsd_enclave_generate_curve25519_keypair(t) \/ SetCurrentKeypair(t)
     \/ dh_keypair' = dh_keypair
  /\ \/ sgxsd_enclave_generate_curve25519_keypair(t) \/ StoreNewKeypair(t)
     \/ new_dh_keypair' = new_dh_keypair
  /\ NodeInitSucceeds(t) \/ node_initialized' = node_initialized
  /\ sgxsd_enclave_generate_curve25519_keypair(t) \/ ReportCreated(t) \/ known' = known
  /\ NextRequestId(t) \/ last_pending_request_id_val' = last_pending_request_id_val
  /\ \/ sgxsd_enclave_add_pending_request(t) \/ sgxsd_enclave_remove_pending_request(t)
     \/ pending_requests' = pending_requests
  /\ sgxsd_enclave_remove_pending_request(t) \/ taken' = taken
  /\ Respond(t) \/ responses' = responses
  /\ Replies(t) \/ replies' = replies
  /\ ServerInit(t) \/ StopErases(t) \/ valid' = valid
  /\ Arrives(t) \/ calls' = calls

\* Which action leads to a place.
Leads(t) ==
  /\ th'[t].at \in RandPlaces =>
       ReadRand(t) \/ (sgxsd_spin_lock(t) /\ th[t].at = "rand.lock")
  /\ th'[t].at = "rand2" => ReadRand(t)
  /\ th'[t].at \in TablePlaces =>
       NextRequestId(t) \/ RequestFound(t) \/ (sgxsd_spin_lock(t) /\ th[t].at = "table.lock")
  /\ th'[t].at \in InServer /\ th'[t].h \in Handles =>
       \/ sgxsd_spin_lock(t) /\ th[t].at = "server.lock" /\ th'[t].h = th[t].h
       \/ th[t].at \in InServer /\ th'[t].h = th[t].h
  /\ th'[t].fn = "negotiate" /\ th'[t].at = "table2" => NextRequestId(t)
  /\ th'[t].fn = "negotiate" /\ th'[t].at = "respond" => sgxsd_enclave_add_pending_request(t)
  /\ th'[t].fn \in {"call", "fingerprint"} =>
       /\ Arrives(t) \/ (th[t].fn \in {"call", "fingerprint"} /\ th'[t].id = th[t].id)
       /\ th'[t].at = "table2" => RequestFound(t)
       /\ th'[t].at \in TablePlaces \cup {"table.lock"} =>
            th'[t].id # 0 \/ th[t].at \in TablePlaces \cup {"table.lock"}
  /\ th'[t].fn = "call" /\ th'[t].at = "callback" =>
       sgxsd_enclave_remove_pending_request(t) \/ Replies(t)
  /\ th'[t].from =>
       RequestFound(t) \/ (th[t].from /\ th'[t].id = th[t].id /\ th'[t].prk = th[t].prk)
  /\ th'[t].fn = "negotiate" /\ th'[t].at \in AfterDraw =>
       \/ sgxsd_enclave_generate_curve25519_keypair(t)
       \/ CopyStaticKeypair(t)
       \/ /\ th[t].fn = "negotiate" /\ th[t].at \in AfterDraw
          /\ th'[t].key = th[t].key /\ th'[t].prk = th[t].prk
          /\ th'[t].at \in {"keys.lock", "keys"} <=> th[t].at \in {"keys.lock", "keys"}
  /\ th'[t].fn = "report" /\ th'[t].at \in {"keys.lock", "keys"} =>
       \/ ReportCreated(t)
       \/ /\ th[t].fn = "report" /\ th[t].at \in {"keys.lock", "keys"}
          /\ th'[t].key = th[t].key
  /\ th'[t].at \in {"init2", "init3"} => sgxsd_enclave_generate_curve25519_keypair(t)
  /\ th'[t].at \in RandPlaces \cup {"rand.lock"} /\ th'[t].back = "init3" =>
       \/ th[t].at = "init2"
       \/ th[t].at \in RandPlaces \cup {"rand.lock"} /\ th[t].back = "init3"

Effect(t) == Others(t) /\ Flow' /\ WritesLocks(t) /\ Writes(t) /\ Leads(t)

LEMMA FlowKept ==
  ASSUME Flow, NEW t \in Threads, Others(t), FlowAt(t)', node_initialized => node_initialized'
  PROVE  Flow'
<1> SUFFICES ASSUME NEW u \in Threads, u # t PROVE FlowAt(u)'
  BY DEF Flow
<1>1. FlowAt(u) /\ th'[u] = th[u]
  BY DEF Flow, Others
<1> QED BY <1>1 DEF FlowAt

LEMMA LocksKept ==
  ASSUME TypeOK, NEW t \in Threads, locks' = locks PROVE WritesLocks(t)
BY DEF TypeOK, WritesLocks

\* A lock that is not that of the generator, and the table's only at its places.
LEMMA LocksFreed ==
  ASSUME TypeOK, NEW t \in Threads, NEW l \in LockNames \ {"rand"}, Release(l),
         l = "table" => th[t].at \in TablePlaces,
         l \in Handles => th[t].h = l /\ (sgxsd_spin_unlock(t) \/ StopErases(t))
  PROVE  WritesLocks(t)
<1>1. locks \in [LockNames -> BOOLEAN] /\ locks' = [locks EXCEPT ![l] = FALSE]
  BY DEF TypeOK, Release
<1>2. locks' \in [LockNames -> BOOLEAN] /\ \A k \in LockNames : k # l => locks'[k] = locks[k]
  BY <1>1
<1>3. "rand" \in LockNames /\ "table" \in LockNames /\ Handles \subseteq LockNames
  BY DEF LockNames
<1> QED BY <1>2, <1>3 DEF WritesLocks

\* A thread that has returned is at no place the invariant speaks of.
LEMMA GoneLeads == ASSUME NEW t \in Threads, Gone(t) PROVE FlowAt(t)' /\ Leads(t)
<1>1. "none" \notin Handles
  BY HandleAssumption
<1>2. FlowAt(t)'
  BY <1>1 DEF Gone, FlowAt, ServerFns, RandPlaces, TablePlaces
<1>3. Leads(t)
  BY DEF Gone, Leads, RandPlaces, TablePlaces, InServer, AfterDraw
<1> QED BY <1>2, <1>3

--------------------------------------------------------------------------------
\* Arriving, the spin locks, the initialisation and the generator.
LEMMA NodeEffects ==
  ASSUME IInv, NEW t \in Threads,
         \/ Arrives(t) \/ sgxsd_spin_lock(t) \/ sgxsd_spin_unlock(t) \/ NodeInitFails(t)
         \/ NodeInitDraws(t) \/ NodeInitSucceeds(t) \/ ReadRand(t)
         \/ sgxsd_enclave_generate_curve25519_keypair(t)
  PROVE  Effect(t)
<1>0. TypeOK /\ Flow
  BY DEF IInv
<1>f. FlowAt(t)
  BY <1>0 DEF Flow
<1>l. locks \in [LockNames -> BOOLEAN]
  BY <1>0 DEF TypeOK
<1>1. CASE Arrives(t)
  <2>1. PICK L \in Local : Arrived(L) /\ th' = [th EXCEPT ![t] = L]
    BY Zenon, <1>1 DEF Arrives
  <2>2. th'[t] = L /\ Others(t)
    BY <1>0, <2>1 DEF TypeOK, Others
  <2>3. /\ th[t].at = "outside" /\ locks' = locks
        /\ node_initialized' = node_initialized
    BY <1>1 DEF Arrives, nodeVars
  <2>4. FlowAt(t)'
    BY <2>1, <2>2, <2>3 DEF Arrived, FlowAt, RandPlaces, TablePlaces, ServerFns
  <2>5. WritesLocks(t)
    BY Zenon, <1>0, <2>3, LocksKept
  <2>6. Writes(t)
    BY Zenon, <1>1 DEF Writes, Arrives, tableVars, nodeVars, serverVars
  <2>7. Leads(t)
    BY <1>1, <2>1, <2>2, <2>3
       DEF Arrived, Leads, RandPlaces, TablePlaces, InServer, ServerFns, AfterDraw
  <2> QED BY Zenon, <1>0, <2>2, <2>3, <2>4, <2>5, <2>6, <2>7, FlowKept DEF Effect
<1>2. CASE sgxsd_spin_lock(t)
  <2>1. /\ th[t].at \in Waits /\ node_initialized' = node_initialized
        /\ locks' = [locks EXCEPT ![LockOf(t)] = TRUE] /\ Goto(t, Locked(th[t].at))
    BY <1>2 DEF sgxsd_spin_lock, nodeVars
  <2>2. /\ calls' = calls /\ rand_state' = rand_state /\ node_initialized' = node_initialized
        /\ dh_keypair' = dh_keypair /\ new_dh_keypair' = new_dh_keypair /\ known' = known
        /\ pending_requests' = pending_requests
        /\ last_pending_request_id_val' = last_pending_request_id_val /\ responses' = responses
        /\ taken' = taken /\ valid' = valid /\ replies' = replies /\ erased' = erased
    BY <1>2 DEF sgxsd_spin_lock, tableVars, nodeVars, serverVars
  <2>3. th'[t].at = (Locked(th[t].at)) /\ Keeps(t) /\ Others(t)
    BY Zenon, <1>0, <2>1, Going
  <2>f. FlowAt(t)'
    BY <1>f, <2>1, <2>3 DEF FlowAt, RandPlaces, TablePlaces, ServerFns, Keeps, Locked, Waits
  <2>4. Leads(t) /\ FlowAt(t)'
    BY <2>f, <1>2, <1>f, <2>1, <2>3 DEF Leads, FlowAt, RandPlaces, TablePlaces, InServer,
        ServerFns, AfterDraw, Keeps, Locked, Waits
  <2>5. WritesLocks(t)
    BY <1>2, <1>l, <1>f, <2>1, HandleAssumption DEF WritesLocks, FlowAt, ServerFns, LockNames,
        LockOf, Waits
  <2>6. Writes(t)
    BY Zenon, <1>2, <2>2 DEF Writes
  <2> QED BY Zenon, <1>0, <2>1, <2>3, <2>4, <2>5, <2>6, FlowKept DEF Effect
<1>3. CASE sgxsd_spin_unlock(t)
  <2>1. /\ th[t].at = "server.unlock" /\ node_initialized' = node_initialized
        /\ Release(th[t].h) /\ Return(t)
    BY <1>3 DEF sgxsd_spin_unlock, nodeVars
  <2>2. /\ calls' = calls /\ rand_state' = rand_state /\ node_initialized' = node_initialized
        /\ dh_keypair' = dh_keypair /\ new_dh_keypair' = new_dh_keypair /\ known' = known
        /\ pending_requests' = pending_requests
        /\ last_pending_request_id_val' = last_pending_request_id_val /\ responses' = responses
        /\ taken' = taken /\ valid' = valid /\ replies' = replies /\ erased' = erased
    BY <1>3 DEF sgxsd_spin_unlock, tableVars, nodeVars, serverVars
  <2>3. Gone(t) /\ Others(t)
    BY Zenon, <1>0, <2>1, Returning
  <2>4. Leads(t) /\ FlowAt(t)'
    BY Zenon, <2>3, GoneLeads
  <2>l. /\ th[t].h \in LockNames \ {"rand"}
        /\ th[t].h = "table" => th[t].at \in TablePlaces
        /\ th[t].h \in Handles => th[t].h = th[t].h /\ (sgxsd_spin_unlock(t) \/ StopErases(t))
    BY <1>3, <1>f, <2>1, HandleAssumption DEF LockNames, TablePlaces, FlowAt, ServerFns
  <2>5. WritesLocks(t)
    BY Zenon, <1>0, <2>1, <2>l, LocksFreed
  <2>6. Writes(t)
    BY Zenon, <1>3, <2>2 DEF Writes
  <2> QED BY Zenon, <1>0, <2>1, <2>3, <2>4, <2>5, <2>6, FlowKept DEF Effect
<1>4. CASE NodeInitFails(t)
  <2>1. /\ th[t].at \in {"init", "init2", "init3"} /\ node_initialized' = node_initialized
        /\ Release("init") /\ Return(t)
    BY <1>4 DEF NodeInitFails, NodeInitReturns, nodeVars
  <2>2. /\ calls' = calls /\ rand_state' = rand_state /\ node_initialized' = node_initialized
        /\ dh_keypair' = dh_keypair /\ new_dh_keypair' = new_dh_keypair /\ known' = known
        /\ pending_requests' = pending_requests
        /\ last_pending_request_id_val' = last_pending_request_id_val /\ responses' = responses
        /\ taken' = taken /\ valid' = valid /\ replies' = replies /\ erased' = erased
    BY <1>4 DEF NodeInitFails, NodeInitReturns, tableVars, nodeVars, serverVars
  <2>3. Gone(t) /\ Others(t)
    BY Zenon, <1>0, <2>1, Returning
  <2>4. Leads(t) /\ FlowAt(t)'
    BY Zenon, <2>3, GoneLeads
  <2>l. /\ "init" \in LockNames \ {"rand"}
        /\ "init" = "table" => th[t].at \in TablePlaces
        /\ "init" \in Handles => th[t].h = "init" /\ (sgxsd_spin_unlock(t) \/ StopErases(t))
    BY <1>4, <1>f, <2>1, HandleAssumption DEF LockNames, TablePlaces, FlowAt, ServerFns
  <2>5. WritesLocks(t)
    BY Zenon, <1>0, <2>1, <2>l, LocksFreed
  <2>6. Writes(t)
    BY Zenon, <1>4, <2>2 DEF Writes
  <2> QED BY Zenon, <1>0, <2>1, <2>3, <2>4, <2>5, <2>6, FlowKept DEF Effect
<1>5. CASE NodeInitDraws(t)
  <2>1. /\ (th[t].at = "init" \/ th[t].at = "init2") /\ node_initialized' = node_initialized
        /\ locks' = locks
    BY <1>5 DEF NodeInitDraws, nodeVars
  <2>2. /\ calls' = calls /\ rand_state' = rand_state /\ node_initialized' = node_initialized
        /\ dh_keypair' = dh_keypair /\ new_dh_keypair' = new_dh_keypair /\ known' = known
        /\ pending_requests' = pending_requests
        /\ last_pending_request_id_val' = last_pending_request_id_val /\ responses' = responses
        /\ taken' = taken /\ valid' = valid /\ replies' = replies /\ erased' = erased
    BY <1>5 DEF NodeInitDraws, tableVars, nodeVars, serverVars
  <2>3. /\ Others(t)
        /\ th'[t].at = "rand.lock" /\ th'[t].back = (IF th[t].at = "init" THEN "init2" ELSE "init3")
        /\ th'[t].fn = th[t].fn /\ th'[t].h = th[t].h /\ th'[t].id = th[t].id
        /\ th'[t].key = th[t].key /\ th'[t].prk = th[t].prk /\ th'[t].from = th[t].from
    BY <1>5, <1>0 DEF NodeInitDraws, Others, TypeOK
  <2>f. FlowAt(t)'
    BY <1>f, <2>1, <2>3 DEF FlowAt, RandPlaces, TablePlaces, ServerFns
  <2>4. Leads(t) /\ FlowAt(t)'
    BY <2>f, <1>5, <1>f, <2>1, <2>3 DEF Leads, FlowAt, RandPlaces, TablePlaces, InServer,
        ServerFns, AfterDraw
  <2>5. WritesLocks(t)
    BY Zenon, <1>0, <2>1, LocksKept
  <2>6. Writes(t)
    BY Zenon, <1>5, <2>2 DEF Writes
  <2> QED BY Zenon, <1>0, <2>1, <2>3, <2>4, <2>5, <2>6, FlowKept DEF Effect
<1>6. CASE NodeInitSucceeds(t)
  <2>1. /\ th[t].at = "init3"
        /\ Release("init") /\ Return(t)
    BY <1>6 DEF NodeInitSucceeds, NodeInitReturns, nodeVars
  <2>2. /\ calls' = calls /\ rand_state' = rand_state /\ dh_keypair' = dh_keypair
        /\ new_dh_keypair' = new_dh_keypair /\ known' = known
        /\ pending_requests' = pending_requests
        /\ last_pending_request_id_val' = last_pending_request_id_val /\ responses' = responses
        /\ taken' = taken /\ valid' = valid /\ replies' = replies /\ erased' = erased
    BY <1>6 DEF NodeInitSucceeds, NodeInitReturns, tableVars, nodeVars, serverVars
  <2>3. Gone(t) /\ Others(t)
    BY Zenon, <1>0, <2>1, Returning
  <2>4. Leads(t) /\ FlowAt(t)'
    BY Zenon, <2>3, GoneLeads
  <2>l. /\ "init" \in LockNames \ {"rand"}
        /\ "init" = "table" => th[t].at \in TablePlaces
        /\ "init" \in Handles => th[t].h = "init" /\ (sgxsd_spin_unlock(t) \/ StopErases(t))
    BY <1>6, <1>f, <2>1, HandleAssumption DEF LockNames, TablePlaces, FlowAt, ServerFns
  <2>5. WritesLocks(t)
    BY Zenon, <1>0, <2>1, <2>l, LocksFreed
  <2>6. Writes(t)
    BY Zenon, <1>6, <2>2 DEF Writes
  <2>7. node_initialized'
    BY <1>6 DEF NodeInitSucceeds
  <2> QED BY Zenon, <1>0, <2>7, <2>3, <2>4, <2>5, <2>6, FlowKept DEF Effect
<1>7. CASE ReadRand(t)
  <2>1. /\ th[t].at = "rand" /\ node_initialized' = node_initialized
        /\ locks' = locks
    BY <1>7 DEF ReadRand, nodeVars
  <2>2. /\ calls' = calls /\ rand_state' = rand_state /\ node_initialized' = node_initialized
        /\ dh_keypair' = dh_keypair /\ new_dh_keypair' = new_dh_keypair /\ known' = known
        /\ pending_requests' = pending_requests
        /\ last_pending_request_id_val' = last_pending_request_id_val /\ responses' = responses
        /\ taken' = taken /\ valid' = valid /\ replies' = replies /\ erased' = erased
    BY <1>7 DEF ReadRand, tableVars, nodeVars, serverVars
  <2>3. /\ Others(t)
        /\ th'[t].at = "rand2" /\ th'[t].key = rand_state + 1
        /\ th'[t].fn = th[t].fn /\ th'[t].h = th[t].h /\ th'[t].id = th[t].id
        /\ th'[t].back = th[t].back /\ th'[t].prk = th[t].prk /\ th'[t].from = th[t].from
    BY <1>7, <1>0 DEF ReadRand, Others, TypeOK
  <2>f. FlowAt(t)'
    BY <1>f, <2>1, <2>3 DEF FlowAt, RandPlaces, TablePlaces, ServerFns
  <2>4. Leads(t) /\ FlowAt(t)'
    BY <2>f, <1>7, <1>f, <2>1, <2>3 DEF Leads, FlowAt, RandPlaces, TablePlaces, InServer,
        ServerFns, AfterDraw
  <2>5. WritesLocks(t)
    BY Zenon, <1>0, <2>1, LocksKept
  <2>6. Writes(t)
    BY Zenon, <1>7, <2>2 DEF Writes
  <2> QED BY Zenon, <1>0, <2>1, <2>3, <2>4, <2>5, <2>6, FlowKept DEF Effect
<1>8. CASE sgxsd_enclave_generate_curve25519_keypair(t)
  <2>1. /\ th[t].at = "rand2" /\ node_initialized' = node_initialized
        /\ Release("rand") /\ Goto(t, th[t].back)
    BY <1>8 DEF sgxsd_enclave_generate_curve25519_keypair, sgxsd_enclave_read_rand, nodeVars
  <2>2. /\ calls' = calls /\ node_initialized' = node_initialized
        /\ pending_requests' = pending_requests
        /\ last_pending_request_id_val' = last_pending_request_id_val /\ responses' = responses
        /\ taken' = taken /\ valid' = valid /\ replies' = replies /\ erased' = erased
    BY <1>8 DEF sgxsd_enclave_generate_curve25519_keypair, sgxsd_enclave_read_rand, tableVars,
        nodeVars, serverVars
  <2>3. th'[t].at = th[t].back /\ Keeps(t) /\ Others(t)
    BY Zenon, <1>0, <2>1, Going
  <2>f. FlowAt(t)'
    BY <1>f, <2>1, <2>3 DEF FlowAt, RandPlaces, TablePlaces, ServerFns, Keeps
  <2>4. Leads(t) /\ FlowAt(t)'
    BY <2>f, <1>8, <1>f, <2>1, <2>3 DEF Leads, FlowAt, RandPlaces, TablePlaces, InServer,
        ServerFns, AfterDraw, Keeps
  <2>5. WritesLocks(t)
    BY <1>8, <1>l, <1>f, <2>1, HandleAssumption DEF WritesLocks, FlowAt, ServerFns, LockNames,
        Release
  <2>6. Writes(t)
    BY Zenon, <1>8, <2>2 DEF Writes
  <2> QED BY Zenon, <1>0, <2>1, <2>3, <2>4, <2>5, <2>6, FlowKept DEF Effect
<1> QED
  BY Zenon, <1>1, <1>2, <1>3, <1>4, <1>5, <1>6, <1>7, <1>8


\* The steps that work with the key pairs and add requests.
LEMMA KeyEffects ==
  ASSUME IInv, NEW t \in Threads,
         \/ ReportCreated(t) \/ ReportFails(t) \/ StoreNewKeypair(t) \/ SetCurrentKeypair(t)
         \/ CopyStaticKeypair(t) \/ NextRequestId(t) \/ sgxsd_enclave_add_pending_request(t)
         \/ Respond(t) \/ RequestNotFound(t) \/ RequestFound(t)
  PROVE  Effect(t)
<1>0. TypeOK /\ Flow
  BY DEF IInv
<1>f. FlowAt(t)
  BY <1>0 DEF Flow
<1>l. locks \in [LockNames -> BOOLEAN]
  BY <1>0 DEF TypeOK
<1>1. CASE ReportCreated(t)
  <2>1. /\ th[t].at = "report" /\ node_initialized' = node_initialized
        /\ locks' = locks /\ Goto(t, "keys.lock")
    BY <1>1 DEF ReportCreated, nodeVars
  <2>2. /\ calls' = calls /\ rand_state' = rand_state /\ node_initialized' = node_initialized
        /\ dh_keypair' = dh_keypair /\ new_dh_keypair' = new_dh_keypair
        /\ pending_requests' = pending_requests
        /\ last_pending_request_id_val' = last_pending_request_id_val /\ responses' = responses
        /\ taken' = taken /\ valid' = valid /\ replies' = replies /\ erased' = erased
    BY <1>1 DEF ReportCreated, tableVars, nodeVars, serverVars
  <2>3. th'[t].at = "keys.lock" /\ Keeps(t) /\ Others(t)
    BY Zenon, <1>0, <2>1, Going
  <2>f. FlowAt(t)'
    BY <1>f, <2>1, <2>3 DEF FlowAt, RandPlaces, TablePlaces, ServerFns, Keeps
  <2>4. Leads(t) /\ FlowAt(t)'
    BY <2>f, <1>1, <1>f, <2>1, <2>3 DEF Leads, FlowAt, RandPlaces, TablePlaces, InServer,
        ServerFns, AfterDraw, Keeps
  <2>5. WritesLocks(t)
    BY Zenon, <1>0, <2>1, LocksKept
  <2>6. Writes(t)
    BY Zenon, <1>1, <2>2 DEF Writes
  <2> QED BY Zenon, <1>0, <2>1, <2>3, <2>4, <2>5, <2>6, FlowKept DEF Effect
<1>2. CASE ReportFails(t)
  <2>1. /\ th[t].at = "report" /\ node_initialized' = node_initialized
        /\ locks' = locks /\ Return(t)
    BY <1>2 DEF ReportFails, nodeVars
  <2>2. /\ calls' = calls /\ rand_state' = rand_state /\ node_initialized' = node_initialized
        /\ dh_keypair' = dh_keypair /\ new_dh_keypair' = new_dh_keypair /\ known' = known
        /\ pending_requests' = pending_requests
        /\ last_pending_request_id_val' = last_pending_request_id_val /\ responses' = responses
        /\ taken' = taken /\ valid' = valid /\ replies' = replies /\ erased' = erased
    BY <1>2 DEF ReportFails, tableVars, nodeVars, serverVars
  <2>3. Gone(t) /\ Others(t)
    BY Zenon, <1>0, <2>1, Returning
  <2>4. Leads(t) /\ FlowAt(t)'
    BY Zenon, <2>3, GoneLeads
  <2>5. WritesLocks(t)
    BY Zenon, <1>0, <2>1, LocksKept
  <2>6. Writes(t)
    BY Zenon, <1>2, <2>2 DEF Writes
  <2> QED BY Zenon, <1>0, <2>1, <2>3, <2>4, <2>5, <2>6, FlowKept DEF Effect
<1>3. CASE StoreNewKeypair(t)
  <2>1. /\ th[t].at = "keys" /\ node_initialized' = node_initialized
        /\ Release("keys") /\ Return(t)
    BY <1>3 DEF StoreNewKeypair, nodeVars
  <2>2. /\ calls' = calls /\ rand_state' = rand_state /\ node_initialized' = node_initialized
        /\ dh_keypair' = dh_keypair /\ known' = known /\ pending_requests' = pending_requests
        /\ last_pending_request_id_val' = last_pending_request_id_val /\ responses' = responses
        /\ taken' = taken /\ valid' = valid /\ replies' = replies /\ erased' = erased
    BY <1>3 DEF StoreNewKeypair, tableVars, nodeVars, serverVars
  <2>3. Gone(t) /\ Others(t)
    BY Zenon, <1>0, <2>1, Returning
  <2>4. Leads(t) /\ FlowAt(t)'
    BY Zenon, <2>3, GoneLeads
  <2>l. /\ "keys" \in LockNames \ {"rand"}
        /\ "keys" = "table" => th[t].at \in TablePlaces
        /\ "keys" \in Handles => th[t].h = "keys" /\ (sgxsd_spin_unlock(t) \/ StopErases(t))
    BY <1>3, <1>f, <2>1, HandleAssumption DEF LockNames, TablePlaces, FlowAt, ServerFns
  <2>5. WritesLocks(t)
    BY Zenon, <1>0, <2>1, <2>l, LocksFreed
  <2>6. Writes(t)
    BY Zenon, <1>3, <2>2 DEF Writes
  <2> QED BY Zenon, <1>0, <2>1, <2>3, <2>4, <2>5, <2>6, FlowKept DEF Effect
<1>4. CASE SetCurrentKeypair(t)
  <2>1. /\ th[t].at = "keys" /\ node_initialized' = node_initialized
        /\ Release("keys") /\ Return(t)
    BY <1>4 DEF SetCurrentKeypair, nodeVars
  <2>2. /\ calls' = calls /\ rand_state' = rand_state /\ node_initialized' = node_initialized
        /\ new_dh_keypair' = new_dh_keypair /\ known' = known
        /\ pending_requests' = pending_requests
        /\ last_pending_request_id_val' = last_pending_request_id_val /\ responses' = responses
        /\ taken' = taken /\ valid' = valid /\ replies' = replies /\ erased' = erased
    BY <1>4 DEF SetCurrentKeypair, tableVars, nodeVars, serverVars
  <2>3. Gone(t) /\ Others(t)
    BY Zenon, <1>0, <2>1, Returning
  <2>4. Leads(t) /\ FlowAt(t)'
    BY Zenon, <2>3, GoneLeads
  <2>l. /\ "keys" \in LockNames \ {"rand"}
        /\ "keys" = "table" => th[t].at \in TablePlaces
        /\ "keys" \in Handles => th[t].h = "keys" /\ (sgxsd_spin_unlock(t) \/ StopErases(t))
    BY <1>4, <1>f, <2>1, HandleAssumption DEF LockNames, TablePlaces, FlowAt, ServerFns
  <2>5. WritesLocks(t)
    BY Zenon, <1>0, <2>1, <2>l, LocksFreed
  <2>6. Writes(t)
    BY Zenon, <1>4, <2>2 DEF Writes
  <2> QED BY Zenon, <1>0, <2>1, <2>3, <2>4, <2>5, <2>6, FlowKept DEF Effect
<1>5. CASE CopyStaticKeypair(t)
  <2>1. /\ th[t].at = "keys" /\ th[t].fn = "negotiate" /\ node_initialized' = node_initialized
        /\ Release("keys")
    BY <1>5 DEF CopyStaticKeypair, nodeVars
  <2>2. /\ calls' = calls /\ rand_state' = rand_state /\ node_initialized' = node_initialized
        /\ dh_keypair' = dh_keypair /\ new_dh_keypair' = new_dh_keypair /\ known' = known
        /\ pending_requests' = pending_requests
        /\ last_pending_request_id_val' = last_pending_request_id_val /\ responses' = responses
        /\ taken' = taken /\ valid' = valid /\ replies' = replies /\ erased' = erased
    BY <1>5 DEF CopyStaticKeypair, tableVars, nodeVars, serverVars
  <2>3. /\ Others(t)
        /\ th'[t].at = "table.lock" /\ th'[t].prk = <<th[t].key, dh_keypair>>
        /\ th'[t].fn = th[t].fn /\ th'[t].h = th[t].h /\ th'[t].id = th[t].id
        /\ th'[t].key = th[t].key /\ th'[t].back = th[t].back /\ th'[t].from = th[t].from
    BY <1>5, <1>0 DEF CopyStaticKeypair, Others, TypeOK
  <2>f. FlowAt(t)'
    BY <1>f, <2>1, <2>3 DEF FlowAt, RandPlaces, TablePlaces, ServerFns
  <2>4. Leads(t) /\ FlowAt(t)'
    BY <2>f, <1>5, <1>f, <2>1, <2>3 DEF Leads, FlowAt, RandPlaces, TablePlaces, InServer,
        ServerFns, AfterDraw
  <2>l. /\ "keys" \in LockNames \ {"rand"}
        /\ "keys" = "table" => th[t].at \in TablePlaces
        /\ "keys" \in Handles => th[t].h = "keys" /\ (sgxsd_spin_unlock(t) \/ StopErases(t))
    BY <1>5, <1>f, <2>1, HandleAssumption DEF LockNames, TablePlaces, FlowAt, ServerFns
  <2>5. WritesLocks(t)
    BY Zenon, <1>0, <2>1, <2>l, LocksFreed
  <2>6. Writes(t)
    BY Zenon, <1>5, <2>2 DEF Writes
  <2> QED BY Zenon, <1>0, <2>1, <2>3, <2>4, <2>5, <2>6, FlowKept DEF Effect
<1>6. CASE NextRequestId(t)
  <2>1. /\ th[t].at = "table" /\ th[t].fn = "negotiate" /\ node_initialized' = node_initialized
        /\ locks' = locks
    BY <1>6 DEF NextRequestId, nodeVars
  <2>2. /\ calls' = calls /\ rand_state' = rand_state /\ node_initialized' = node_initialized
        /\ dh_keypair' = dh_keypair /\ new_dh_keypair' = new_dh_keypair /\ known' = known
        /\ pending_requests' = pending_requests /\ responses' = responses /\ taken' = taken
        /\ valid' = valid /\ replies' = replies /\ erased' = erased
    BY <1>6 DEF NextRequestId, tableVars, nodeVars, serverVars
  <2>3. /\ Others(t)
        /\ th'[t].at = "table2" /\ th'[t].id = last_pending_request_id_val + 1
        /\ th'[t].fn = th[t].fn /\ th'[t].h = th[t].h /\ th'[t].key = th[t].key
        /\ th'[t].back = th[t].back /\ th'[t].prk = th[t].prk /\ th'[t].from = th[t].from
    BY <1>6, <1>0 DEF NextRequestId, Others, TypeOK
  <2>f. FlowAt(t)'
    BY <1>f, <2>1, <2>3 DEF FlowAt, RandPlaces, TablePlaces, ServerFns
  <2>4. Leads(t) /\ FlowAt(t)'
    BY <2>f, <1>6, <1>f, <2>1, <2>3 DEF Leads, FlowAt, RandPlaces, TablePlaces, InServer,
        ServerFns, AfterDraw
  <2>5. WritesLocks(t)
    BY Zenon, <1>0, <2>1, LocksKept
  <2>6. Writes(t)
    BY Zenon, <1>6, <2>2 DEF Writes
  <2> QED BY Zenon, <1>0, <2>1, <2>3, <2>4, <2>5, <2>6, FlowKept DEF Effect
<1>7. CASE sgxsd_enclave_add_pending_request(t)
  <2>1. /\ th[t].at = "table2" /\ th[t].fn = "negotiate" /\ node_initialized' = node_initialized
        /\ Release("table") /\ Goto(t, "respond")
    BY <1>7 DEF sgxsd_enclave_add_pending_request, nodeVars
  <2>2. /\ calls' = calls /\ rand_state' = rand_state /\ node_initialized' = node_initialized
        /\ dh_keypair' = dh_keypair /\ new_dh_keypair' = new_dh_keypair /\ known' = known
        /\ last_pending_request_id_val' = last_pending_request_id_val /\ responses' = responses
        /\ taken' = taken /\ valid' = valid /\ replies' = replies /\ erased' = erased
    BY <1>7 DEF sgxsd_enclave_add_pending_request, tableVars, nodeVars, serverVars
  <2>3. th'[t].at = "respond" /\ Keeps(t) /\ Others(t)
    BY Zenon, <1>0, <2>1, Going
  <2>f. FlowAt(t)'
    BY <1>f, <2>1, <2>3 DEF FlowAt, RandPlaces, TablePlaces, ServerFns, Keeps
  <2>4. Leads(t) /\ FlowAt(t)'
    BY <2>f, <1>7, <1>f, <2>1, <2>3 DEF Leads, FlowAt, RandPlaces, TablePlaces, InServer,
        ServerFns, AfterDraw, Keeps
  <2>l. /\ "table" \in LockNames \ {"rand"}
        /\ "table" = "table" => th[t].at \in TablePlaces
        /\ "table" \in Handles => th[t].h = "table" /\ (sgxsd_spin_unlock(t) \/ StopErases(t))
    BY <1>7, <1>f, <2>1, HandleAssumption DEF LockNames, TablePlaces, FlowAt, ServerFns
  <2>5. WritesLocks(t)
    BY Zenon, <1>0, <2>1, <2>l, LocksFreed
  <2>6. Writes(t)
    BY Zenon, <1>7, <2>2 DEF Writes
  <2> QED BY Zenon, <1>0, <2>1, <2>3, <2>4, <2>5, <2>6, FlowKept DEF Effect
<1>8. CASE Respond(t)
  <2>1. /\ th[t].at = "respond" /\ node_initialized' = node_initialized
        /\ locks' = locks /\ Return(t)
    BY <1>8 DEF Respond, nodeVars
  <2>2. /\ calls' = calls /\ rand_state' = rand_state /\ node_initialized' = node_initialized
        /\ dh_keypair' = dh_keypair /\ new_dh_keypair' = new_dh_keypair /\ known' = known
        /\ pending_requests' = pending_requests
        /\ last_pending_request_id_val' = last_pending_request_id_val /\ taken' = taken
        /\ valid' = valid /\ replies' = replies /\ erased' = erased
    BY <1>8 DEF Respond, tableVars, nodeVars, serverVars
  <2>3. Gone(t) /\ Others(t)
    BY Zenon, <1>0, <2>1, Returning
  <2>4. Leads(t) /\ FlowAt(t)'
    BY Zenon, <2>3, GoneLeads
  <2>5. WritesLocks(t)
    BY Zenon, <1>0, <2>1, LocksKept
  <2>6. Writes(t)
    BY Zenon, <1>8, <2>2 DEF Writes
  <2> QED BY Zenon, <1>0, <2>1, <2>3, <2>4, <2>5, <2>6, FlowKept DEF Effect
<1>9. CASE RequestNotFound(t)
  <2>1. /\ th[t].at = "table" /\ th[t].fn \in {"call", "fingerprint"} /\ node_initialized' = node_initialized
        /\ Release("table") /\ Goto(t, "server.unlock")
    BY <1>9 DEF RequestNotFound, nodeVars
  <2>2. /\ calls' = calls /\ rand_state' = rand_state /\ node_initialized' = node_initialized
        /\ dh_keypair' = dh_keypair /\ new_dh_keypair' = new_dh_keypair /\ known' = known
        /\ pending_requests' = pending_requests
        /\ last_pending_request_id_val' = last_pending_request_id_val /\ responses' = responses
        /\ taken' = taken /\ valid' = valid /\ replies' = replies /\ erased' = erased
    BY <1>9 DEF RequestNotFound, tableVars, nodeVars, serverVars
  <2>3. th'[t].at = "server.unlock" /\ Keeps(t) /\ Others(t)
    BY Zenon, <1>0, <2>1, Going
  <2>f. FlowAt(t)'
    BY <1>f, <2>1, <2>3 DEF FlowAt, RandPlaces, TablePlaces, ServerFns, Keeps
  <2>4. Leads(t) /\ FlowAt(t)'
    BY <2>f, <1>9, <1>f, <2>1, <2>3 DEF Leads, FlowAt, RandPlaces, TablePlaces, InServer,
        ServerFns, AfterDraw, Keeps
  <2>l. /\ "table" \in LockNames \ {"rand"}
        /\ "table" = "table" => th[t].at \in TablePlaces
        /\ "table" \in Handles => th[t].h = "table" /\ (sgxsd_spin_unlock(t) \/ StopErases(t))
    BY <1>9, <1>f, <2>1, HandleAssumption DEF LockNames, TablePlaces, FlowAt, ServerFns
  <2>5. WritesLocks(t)
    BY Zenon, <1>0, <2>1, <2>l, LocksFreed
  <2>6. Writes(t)
    BY Zenon, <1>9, <2>2 DEF Writes
  <2> QED BY Zenon, <1>0, <2>1, <2>3, <2>4, <2>5, <2>6, FlowKept DEF Effect
<1>10. CASE RequestFound(t)
  <2>1. /\ th[t].at = "table" /\ th[t].fn \in {"call", "fingerprint"} /\ node_initialized' = node_initialized
        /\ locks' = locks
    BY <1>10 DEF RequestFound, nodeVars
  <2>2. /\ calls' = calls /\ rand_state' = rand_state /\ node_initialized' = node_initialized
        /\ dh_keypair' = dh_keypair /\ new_dh_keypair' = new_dh_keypair /\ known' = known
        /\ pending_requests' = pending_requests
        /\ last_pending_request_id_val' = last_pending_request_id_val /\ responses' = responses
        /\ taken' = taken /\ valid' = valid /\ replies' = replies /\ erased' = erased
    BY <1>10 DEF RequestFound, tableVars, nodeVars, serverVars
  <2>3. /\ Others(t)
        /\ th'[t].at = "table2" /\ th'[t].from = TRUE
        /\ th'[t].fn = th[t].fn /\ th'[t].h = th[t].h /\ th'[t].id = th[t].id
        /\ th'[t].key = th[t].key /\ th'[t].back = th[t].back
    BY <1>10, <1>0 DEF RequestFound, Others, TypeOK
  <2>f. FlowAt(t)'
    BY <1>f, <2>1, <2>3 DEF FlowAt, RandPlaces, TablePlaces, ServerFns
  <2>4. Leads(t) /\ FlowAt(t)'
    BY <2>f, <1>10, <1>f, <2>1, <2>3 DEF Leads, FlowAt, RandPlaces, TablePlaces, InServer,
        ServerFns, AfterDraw
  <2>5. WritesLocks(t)
    BY Zenon, <1>0, <2>1, LocksKept
  <2>6. Writes(t)
    BY Zenon, <1>10, <2>2 DEF Writes
  <2> QED BY Zenon, <1>0, <2>1, <2>3, <2>4, <2>5, <2>6, FlowKept DEF Effect
<1> QED
  BY Zenon, <1>1, <1>2, <1>3, <1>4, <1>5, <1>6, <1>7, <1>8, <1>9, <1>10
================================================================================
