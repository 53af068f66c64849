---------------------------- MODULE EnclaveServer ----------------------------
(***************************************************************************)
(* The ecalls of bearssl/src/sgxsd-enclave.c, entered by any number of     *)
(* threads: the node's initialisation, its key pairs, the table of pending *)
(* requests and the servers, each behind a spin lock.  A lock is the word  *)
(* the code has, with no owner in it.                                      *)
(*                                                                         *)
(* What is read under a lock and written after it are two steps, the last  *)
(* one with the release; a server's lock is released in a step of its own. *)
(* A key pair is the number of its draw from the random state, a pseudo-   *)
(* random key the pair of key pairs it is derived from.                    *)
(***************************************************************************)
EXTENDS Integers, FiniteSets

CONSTANTS
  Threads,
  Handles,   \* of the servers
  Order,     \* pending_requests_table_order
  MaxCalls   \* ecalls in a behaviour

ASSUME TableAssumption == 2^Order \in Nat \ {0}
ASSUME HandleAssumption == Handles \cap {"none", "init", "rand", "keys", "table"} = {}

VARIABLES
  node_initialized,
  locks,        \* which spin locks are taken
  rand_state,   \* key pairs drawn so far
  dh_keypair,
  new_dh_keypair,
  pending_requests,
  last_pending_request_id_val,
  valid,        \* which servers run (valid of the descriptor)
  th,           \* the threads: where they are, and their local variables
  calls,        \* ecalls made
  responses,    \* the ids and keys given to clients
  known,        \* the key pairs of the initialisation, and those in a report
  taken,        \* the removals of requests from the table, numbered
  replies,      \* the replies handed to sgxsd_ocall_reply, numbered
  erased        \* the servers that were stopped since the node started

vars == <<node_initialized, locks, rand_state, dh_keypair, new_dh_keypair, pending_requests,
          last_pending_request_id_val, valid, th, calls, responses, known, taken,
          replies, erased>>

TableSize == 2^Order
Slots == 0 .. TableSize - 1
SlotOf(id) == id % TableSize

LockNames == Handles \cup {"init", "rand", "keys", "table"}

NoPrk == <<0, 0>>
NoRequest == [id_val |-> 0, hkdf_prk |-> NoPrk]

\* A thread outside the enclave.
Outside == [at |-> "outside", fn |-> "none", h |-> "none", id |-> 0, msg |-> NoPrk,
            key |-> 0, back |-> "none", prk |-> NoPrk, from |-> FALSE]

\* The code at these places waits for a lock, and goes on at the place named.
Waits == {"init.lock", "rand.lock", "keys.lock", "table.lock", "server.lock"}
LockOf(t) ==
  CASE th[t].at = "init.lock" -> "init"
    [] th[t].at = "rand.lock" -> "rand"
    [] th[t].at = "keys.lock" -> "keys"
    [] th[t].at = "table.lock" -> "table"
    [] OTHER -> th[t].h
Locked(at) ==
  CASE at = "init.lock" -> "init"
    [] at = "rand.lock" -> "rand"
    [] at = "keys.lock" -> "keys"
    [] at = "table.lock" -> "table"
    [] OTHER -> "server"

Init ==
  /\ node_initialized = FALSE
  /\ locks = [l \in LockNames |-> FALSE]
  /\ rand_state = 0 /\ dh_keypair = 0 /\ new_dh_keypair = 0
  /\ pending_requests = [s \in Slots |-> NoRequest]
  /\ last_pending_request_id_val = 0
  /\ valid = [h \in Handles |-> FALSE]
  /\ th = [t \in Threads |-> Outside]
  /\ calls = 0 /\ responses = {} /\ known = {} /\ taken = {} /\ replies = {}
  /\ erased = {}

nodeVars == <<node_initialized, dh_keypair, new_dh_keypair, known>>
tableVars == <<pending_requests, last_pending_request_id_val, responses, taken>>
serverVars == <<valid, replies, erased>>

Goto(t, at) == th' = [th EXCEPT ![t].at = at]
Return(t) == th' = [th EXCEPT ![t] = Outside]
Release(l) == locks' = [locks EXCEPT ![l] = FALSE]

--------------------------------------------------------------------------------
(* Entering: the checks an ecall makes before its first lock.  node_initialized is   *)
(* read without a lock; sgx_read_rand may fail.                                      *)

Enter(t, local) ==
  /\ th[t].at = "outside" /\ calls < MaxCalls
  /\ th' = [th EXCEPT ![t] = local]
  /\ calls' = calls + 1
  /\ UNCHANGED <<locks, rand_state, nodeVars, tableVars, serverVars>>

sgxsd_enclave_node_init(t) ==
  Enter(t, [Outside EXCEPT !.at = "init.lock", !.fn = "node_init"])

sgxsd_enclave_get_next_report(t) ==
  /\ node_initialized
  /\ Enter(t, [Outside EXCEPT !.at = "rand.lock", !.fn = "report",
                              !.back = "report"])

sgxsd_enclave_set_current_quote(t) ==
  /\ node_initialized
  /\ Enter(t, [Outside EXCEPT !.at = "keys.lock", !.fn = "quote"])

sgxsd_enclave_negotiate_request(t) ==
  /\ node_initialized
  /\ Enter(t, [Outside EXCEPT !.at = "rand.lock", !.fn = "negotiate",
                              !.back = "keys.lock"])

sgxsd_enclave_server_start(t, h) ==
  /\ node_initialized
  /\ Enter(t, [Outside EXCEPT !.at = "server.lock", !.fn = "start", !.h = h])

sgxsd_enclave_server_stop(t, h) ==
  /\ node_initialized
  /\ Enter(t, [Outside EXCEPT !.at = "server.lock", !.fn = "stop", !.h = h])

\* The header has an id a client was given, or is missing or does not decrypt (0); msg is
\* the key the message is encrypted under, the client's or not.
sgxsd_enclave_server_call(t, h, id, msg) ==
  /\ node_initialized
  /\ Enter(t, [Outside EXCEPT !.at = "server.lock", !.fn = "call", !.h = h,
                              !.id = id, !.msg = msg])

sgxsd_enclave_ratelimit_fingerprint(t, h, id, msg) ==
  /\ node_initialized
  /\ Enter(t, [Outside EXCEPT !.at = "server.lock", !.fn = "fingerprint",
                              !.h = h, !.id = id, !.msg = msg])

sgxsd_spin_lock(t) ==
  /\ th[t].at \in Waits /\ ~locks[LockOf(t)]
  /\ locks' = [locks EXCEPT ![LockOf(t)] = TRUE]
  /\ Goto(t, Locked(th[t].at))
  /\ UNCHANGED <<rand_state, calls, nodeVars, tableVars, serverVars>>

--------------------------------------------------------------------------------
(* Under the locks of the node: at "init" nothing is drawn yet, at "init2" the first *)
(* key pair, at "init3" both.                                                        *)

NodeInitReturns(t) ==
  /\ Release("init") /\ Return(t)
  /\ UNCHANGED <<rand_state, calls, tableVars, serverVars>>

\* Parameters that are refused, randomness or memory that cannot be had.
NodeInitFails(t) ==
  /\ th[t].at \in {"init", "init2", "init3"}
  /\ NodeInitReturns(t)
  /\ UNCHANGED nodeVars

NodeInitDraws(t) ==
  /\ \/ th[t].at = "init" /\ ~node_initialized
     \/ th[t].at = "init2"
  /\ th' = [th EXCEPT ![t].at = "rand.lock",
                      ![t].back = IF th[t].at = "init" THEN "init2" ELSE "init3"]
  /\ UNCHANGED <<locks, rand_state, calls, nodeVars, tableVars, serverVars>>

\* calloc has zeroed the table: it is as in Init, no request was added before.
NodeInitSucceeds(t) ==
  /\ th[t].at = "init3"
  /\ node_initialized' = TRUE
  /\ NodeInitReturns(t)
  /\ UNCHANGED <<dh_keypair, new_dh_keypair, known>>

sgxsd_enclave_node_init_locked(t) ==
  NodeInitFails(t) \/ NodeInitDraws(t) \/ NodeInitSucceeds(t)

\* A draw is computed from the state of the generator, which is then replaced.
ReadRand(t) ==
  /\ th[t].at = "rand"
  /\ th' = [th EXCEPT ![t].key = rand_state + 1, ![t].at = "rand2"]
  /\ UNCHANGED <<locks, rand_state, calls, nodeVars, tableVars, serverVars>>

\* Mutant of sgxsd_enclave_read_rand: the state stays as it was.
KeepsRandState(t) ==
  /\ th[t].at = "rand2"
  /\ Goto(t, th[t].back) /\ Release("rand")
  /\ UNCHANGED <<rand_state, calls, tableVars, serverVars>>

sgxsd_enclave_read_rand(t) ==
  /\ th[t].at = "rand2"
  /\ rand_state' = th[t].key
  /\ Goto(t, th[t].back) /\ Release("rand")
  /\ UNCHANGED <<calls, tableVars, serverVars>>

\* The initialisation draws into the two global key pairs, one after the other.
sgxsd_enclave_generate_curve25519_keypair(t) ==
  /\ sgxsd_enclave_read_rand(t)
  /\ dh_keypair' = IF th[t].back = "init2" THEN th[t].key ELSE dh_keypair
  /\ new_dh_keypair' = IF th[t].back = "init3" THEN th[t].key ELSE new_dh_keypair
  /\ known' = IF th[t].fn = "node_init" THEN known \cup {th[t].key} ELSE known
  /\ UNCHANGED node_initialized

\* sgx_create_report makes the new public key known, or fails.
ReportCreated(t) ==
  /\ th[t].at = "report"
  /\ known' = known \cup {th[t].key}
  /\ Goto(t, "keys.lock")
  /\ UNCHANGED <<node_initialized, dh_keypair, new_dh_keypair, locks, rand_state, calls,
                 tableVars, serverVars>>

ReportFails(t) ==
  /\ th[t].at = "report"
  /\ Return(t)
  /\ UNCHANGED <<locks, rand_state, calls, nodeVars, tableVars, serverVars>>

StoreNewKeypair(t) ==
  /\ th[t].at = "keys" /\ th[t].fn = "report"
  /\ new_dh_keypair' = th[t].key
  /\ Release("keys") /\ Return(t)
  /\ UNCHANGED <<node_initialized, dh_keypair, known, rand_state, calls, tableVars, serverVars>>

SetCurrentKeypair(t) ==
  /\ th[t].at = "keys" /\ th[t].fn = "quote"
  /\ dh_keypair' = new_dh_keypair
  /\ Release("keys") /\ Return(t)
  /\ UNCHANGED <<node_initialized, new_dh_keypair, known, rand_state, calls, tableVars,
                 serverVars>>

\* The key of the request is derived from the ephemeral and the current static pair.
CopyStaticKeypair(t) ==
  /\ th[t].at = "keys" /\ th[t].fn = "negotiate"
  /\ th' = [th EXCEPT ![t].prk = <<th[t].key, dh_keypair>>, ![t].at = "table.lock"]
  /\ Release("keys")
  /\ UNCHANGED <<rand_state, calls, nodeVars, tableVars, serverVars>>

--------------------------------------------------------------------------------
(* The pending requests *)

NextRequestId(t) ==
  /\ th[t].at = "table" /\ th[t].fn = "negotiate"
  /\ last_pending_request_id_val' = last_pending_request_id_val + 1
  /\ th' = [th EXCEPT ![t].id = last_pending_request_id_val + 1, ![t].at = "table2"]
  /\ UNCHANGED <<locks, rand_state, calls, nodeVars, pending_requests, responses, taken,
                 serverVars>>

\* Mutant of WriteRequest: an entry still pending is kept.
KeepsPending(t) ==
  pending_requests' =
    [pending_requests EXCEPT ![SlotOf(th[t].id)] =
       IF @ = NoRequest THEN [id_val |-> th[t].id, hkdf_prk |-> th[t].prk] ELSE @]

WriteRequest(t) ==
  pending_requests' = [pending_requests EXCEPT ![SlotOf(th[t].id)] =
                         [id_val |-> th[t].id, hkdf_prk |-> th[t].prk]]

sgxsd_enclave_add_pending_request(t) ==
  /\ th[t].at = "table2" /\ th[t].fn = "negotiate"
  /\ WriteRequest(t)
  /\ Goto(t, "respond") /\ Release("table")
  /\ UNCHANGED <<rand_state, calls, nodeVars, last_pending_request_id_val, responses, taken,
                 serverVars>>

\* The client is given the encrypted id, unless the randomness for it cannot be had; the
\* request stays in the table.
Respond(t) ==
  /\ th[t].at = "respond"
  /\ responses' \in {responses, responses \cup {[id |-> th[t].id, prk |-> th[t].prk]}}
  /\ Return(t)
  /\ UNCHANGED <<locks, rand_state, calls, nodeVars, pending_requests,
                 last_pending_request_id_val, taken, serverVars>>

\* Mutant of Found: any request in the slot is taken for the client's.
FindsAny(t) == pending_requests[SlotOf(th[t].id)].id_val # 0

Found(t) == pending_requests[SlotOf(th[t].id)].id_val = th[t].id

RequestNotFound(t) ==
  /\ th[t].at = "table" /\ th[t].fn \in {"call", "fingerprint"} /\ ~Found(t)
  /\ Goto(t, "server.unlock") /\ Release("table")
  /\ UNCHANGED <<rand_state, calls, nodeVars, tableVars, serverVars>>

RequestFound(t) ==
  /\ th[t].at = "table" /\ th[t].fn \in {"call", "fingerprint"} /\ Found(t)
  /\ th' = [th EXCEPT ![t].prk = pending_requests[SlotOf(th[t].id)].hkdf_prk,
                      ![t].from = TRUE, ![t].at = "table2"]
  /\ UNCHANGED <<locks, rand_state, calls, nodeVars, tableVars, serverVars>>

\* The keys are derived from the request's, and the message is decrypted with them.
Decrypt(t) == Goto(t, IF th[t].msg = th[t].prk THEN "callback" ELSE "server.unlock")

\* Mutant of ZeroRequest: the entry is not zeroed.
LeavesRequest(t) == UNCHANGED pending_requests

ZeroRequest(t) == pending_requests' = [pending_requests EXCEPT ![SlotOf(th[t].id)] = NoRequest]

sgxsd_enclave_remove_pending_request(t) ==
  /\ th[t].at = "table2" /\ th[t].fn = "call"
  /\ ZeroRequest(t)
  /\ taken' = taken \cup {[id |-> th[t].id, nth |-> Cardinality(taken)]}
  /\ Decrypt(t) /\ Release("table")
  /\ UNCHANGED <<rand_state, calls, nodeVars, last_pending_request_id_val, responses, serverVars>>

sgxsd_enclave_get_pending_request(t) ==
  /\ th[t].at = "table2" /\ th[t].fn = "fingerprint"
  /\ Decrypt(t) /\ Release("table")
  /\ UNCHANGED <<rand_state, calls, nodeVars, tableVars, serverVars>>

--------------------------------------------------------------------------------
(* The servers.  A callback of the application runs at "callback". *)

Moves(t, at) ==
  /\ Goto(t, at)
  /\ UNCHANGED <<locks, rand_state, calls, nodeVars, tableVars, serverVars>>

sgxsd_enclave_server_start_locked(t) ==
  /\ th[t].at = "server" /\ th[t].fn = "start"
  /\ Moves(t, IF valid[th[t].h] THEN "server.unlock" ELSE "callback")

\* The callback sgxsd_enclave_server_init fails, or has made the server's state.
ServerInit(t) ==
  /\ th[t].at = "callback" /\ th[t].fn = "start"
  /\ valid' \in {valid, [valid EXCEPT ![th[t].h] = TRUE]}
  /\ Goto(t, "server.unlock")
  /\ UNCHANGED <<locks, rand_state, calls, nodeVars, tableVars, replies, erased>>

\* Mutant of sgxsd_enclave_server_call_locked: the server is unlocked before the request is
\* looked up.
UnlocksEarly(t) ==
  /\ th[t].at = "server" /\ th[t].fn = "call"
  /\ Release(th[t].h)
  /\ Goto(t, IF valid[th[t].h] /\ th[t].id # 0 THEN "table.lock" ELSE "server.unlock")
  /\ UNCHANGED <<rand_state, calls, nodeVars, tableVars, serverVars>>

\* Mutant of sgxsd_enclave_server_call_locked: an early return, without the unlock.
ReturnsLocked(t) ==
  /\ th[t].at = "server" /\ th[t].fn = "call"
  /\ Moves(t, IF valid[th[t].h] /\ th[t].id # 0 THEN "table.lock" ELSE "outside")

sgxsd_enclave_server_call_locked(t) ==
  /\ th[t].at = "server" /\ th[t].fn = "call"
  /\ Moves(t, IF valid[th[t].h] /\ th[t].id # 0 THEN "table.lock"
              ELSE "server.unlock")

sgxsd_enclave_ratelimit_fingerprint_locked(t) ==
  /\ th[t].at = "server" /\ th[t].fn = "fingerprint"
  /\ Moves(t, IF valid[th[t].h] /\ th[t].id # 0 THEN "table.lock"
              ELSE "server.unlock")

\* The ocall is made, and p_from erased.
SendReply(t) ==
  /\ replies' = replies \cup {[id |-> th[t].id, nth |-> Cardinality(replies)]}
  /\ th' = [th EXCEPT ![t].from = FALSE]

\* A handler replies; p_from is erased too where the reply cannot be encrypted.
sgxsd_enclave_server_reply(t) ==
  /\ th[t].at = "callback" /\ th[t].fn = "call" /\ th[t].from
  /\ \/ SendReply(t)
     \/ th' = [th EXCEPT ![t].from = FALSE] /\ UNCHANGED replies
  /\ UNCHANGED <<locks, rand_state, calls, nodeVars, tableVars, valid, erased>>

sgxsd_enclave_server_noreply(t) ==
  /\ th[t].at = "callback" /\ th[t].fn = "call" /\ th[t].from
  /\ SendReply(t)
  /\ UNCHANGED <<locks, rand_state, calls, nodeVars, tableVars, valid, erased>>

\* sgxsd_enclave_server_handle_call, _create_ratelimit_fingerprint and _terminate return.
CallbackReturns(t) ==
  /\ th[t].at = "callback" /\ th[t].fn \in {"call", "fingerprint", "stop"}
  /\ Moves(t, "server.unlock")

StopChecks(t) ==
  /\ th[t].at = "server" /\ th[t].fn = "stop"
  /\ Moves(t, IF valid[th[t].h] THEN "erase" ELSE "server.unlock")

\* memset_s clears the whole descriptor: the lock in it is free from here on.
StopErases(t) ==
  /\ th[t].at = "erase"
  /\ valid' = [valid EXCEPT ![th[t].h] = FALSE]
  /\ Release(th[t].h)
  /\ erased' = erased \cup {th[t].h}
  /\ Goto(t, "callback")
  /\ UNCHANGED <<rand_state, calls, nodeVars, tableVars, replies>>

sgxsd_enclave_server_stop_locked(t) == StopChecks(t) \/ StopErases(t)

\* The lock is freed whoever holds it.
sgxsd_spin_unlock(t) ==
  /\ th[t].at = "server.unlock"
  /\ Release(th[t].h) /\ Return(t)
  /\ UNCHANGED <<rand_state, calls, nodeVars, tableVars, serverVars>>

--------------------------------------------------------------------------------
Ids == {[id |-> 0, prk |-> NoPrk]} \cup responses

Ecall(t) ==
  \/ sgxsd_enclave_node_init(t)
  \/ sgxsd_enclave_get_next_report(t)
  \/ sgxsd_enclave_set_current_quote(t)
  \/ sgxsd_enclave_negotiate_request(t)
  \/ \E h \in Handles :
       \/ sgxsd_enclave_server_start(t, h)
       \/ sgxsd_enclave_server_stop(t, h)
       \/ \E r \in Ids : \E msg \in {r.prk, NoPrk} :
            \/ sgxsd_enclave_server_call(t, h, r.id, msg)
            \/ sgxsd_enclave_ratelimit_fingerprint(t, h, r.id, msg)

Step(t) ==
  \/ sgxsd_spin_lock(t) \/ sgxsd_spin_unlock(t)
  \/ sgxsd_enclave_node_init_locked(t)
  \/ ReadRand(t) \/ sgxsd_enclave_generate_curve25519_keypair(t)
  \/ ReportCreated(t) \/ ReportFails(t) \/ StoreNewKeypair(t) \/ SetCurrentKeypair(t)
  \/ CopyStaticKeypair(t)
  \/ NextRequestId(t) \/ sgxsd_enclave_add_pending_request(t) \/ Respond(t)
  \/ RequestNotFound(t) \/ RequestFound(t) \/ sgxsd_enclave_remove_pending_request(t)
  \/ sgxsd_enclave_get_pending_request(t)
  \/ sgxsd_enclave_server_start_locked(t) \/ ServerInit(t)
  \/ sgxsd_enclave_server_call_locked(t) \/ sgxsd_enclave_ratelimit_fingerprint_locked(t)
  \/ sgxsd_enclave_server_reply(t) \/ sgxsd_enclave_server_noreply(t) \/ CallbackReturns(t)
  \/ sgxsd_enclave_server_stop_locked(t)

Next == \E t \in Threads : Ecall(t) \/ Step(t)

\* A thread in the enclave goes on running; nothing orders the threads that spin.
Fairness == \A t \in Threads : WF_vars(Step(t))

Spec == Init /\ [][Next]_vars

FairSpec == Spec /\ Fairness

--------------------------------------------------------------------------------
(* What holds of the ecalls *)

Places ==
  Waits \cup {"outside", "init", "init2", "init3", "rand", "rand2", "keys", "report", "table",
             "table2", "respond", "server", "callback", "erase", "server.unlock"}
Fns ==
  {"none", "node_init", "report", "quote", "negotiate", "start", "stop", "call", "fingerprint"}
Local ==
  [at : Places, fn : Fns, h : Handles \cup {"none"}, id : Nat, msg : Nat \X Nat, key : Nat,
   back : {"none", "init2", "init3", "report", "keys.lock"}, prk : Nat \X Nat, from : BOOLEAN]

\* The globals of sgxsd-enclave.c and the locals of every thread have their types.
TypeOK ==
  /\ node_initialized \in BOOLEAN
  /\ locks \in [LockNames -> BOOLEAN]
  /\ rand_state \in Nat /\ dh_keypair \in Nat /\ new_dh_keypair \in Nat
  /\ pending_requests \in [Slots -> [id_val : Nat, hkdf_prk : Nat \X Nat]]
  /\ last_pending_request_id_val \in Nat
  /\ valid \in [Handles -> BOOLEAN]
  /\ th \in [Threads -> Local]
  /\ calls \in Nat
  /\ responses \subseteq [id : Nat, prk : Nat \X Nat]
  /\ known \subseteq Nat
  /\ taken \subseteq [id : Nat, nth : Nat]
  /\ replies \subseteq [id : Nat, nth : Nat]
  /\ erased \subseteq Handles

\* A request is taken from the table by one call at most, and answered once at most, with
\* any number of threads presenting the same id to any number of servers: remove zeroes the
\* entry under the table's lock, reply and noreply erase the sender.
AnsweredOnce ==
  /\ \A x, y \in taken : x.id = y.id => x = y
  /\ \A x, y \in replies : x.id = y.id => x = y

\* A call or a fingerprint works with the secret its client negotiated, never with that of
\* a later request that took over the slot of the table: the id in the entry is compared
\* under the lock that add_pending_request writes both under.
OwnSecret ==
  \A t \in Threads :
    th[t].from => \A r \in responses : r.id = th[t].id => r.prk = th[t].prk

\* A request a client was told of is in the table until a call removes it or 2^order newer
\* requests were added: only its own slot is ever overwritten.
PendingUntilReplaced ==
  \A r \in responses :
    \/ pending_requests[SlotOf(r.id)] = [id_val |-> r.id, hkdf_prk |-> r.prk]
    \/ \E x \in taken : x.id = r.id
    \/ last_pending_request_id_val >= r.id + TableSize

\* No two requests have the same secret, and each was negotiated with a static key pair a
\* report was created for or that the initialisation drew: a draw replaces the generator's
\* state before the lock is released, and get_next_report stores a pair after its report.
SecretsFresh ==
  \A r, s \in responses : r.prk[2] \in known /\ (r.prk = s.prk => r = s)

\* The places between a server's lock and unlock, the wait for the table included.
InServer == {"server", "table.lock", "table", "table2", "callback", "erase", "server.unlock"}

\* Until a server is stopped for the first time, at most one thread is between its lock and
\* its unlock, callbacks of the application included.  A stop erases the lock while it holds
\* it (server_stop_locked), so this is all the lock gives.
ExclusiveUntilStopped ==
  \A t, u \in Threads :
    /\ th[t].h \in Handles \ erased /\ th[t].h = th[u].h
    /\ th[t].at \in InServer /\ th[u].at \in InServer
    => t = u

\* Every ecall returns, whatever the others do and however a stop has freed the locks: the
\* locks are taken in one order, server before table, and every path releases them.
EveryCallReturns ==
  \A t \in Threads : th[t].at # "outside" ~> th[t].at = "outside"
================================================================================
