-------------------------- MODULE EnclaveServerSteps ---------------------------
(******************************************************************************)
(* What the steps of the table and of the servers do to the thread that takes *)
(* them; then, for all steps, that types, locks and keys are kept.            *)
(******************************************************************************)
EXTENDS EnclaveServerInv

\* The steps of a call, of a start and of a stop.
LEMMA CallEffects ==
  ASSUME IInv, NEW t \in Threads,
         \/ sgxsd_enclave_remove_pending_request(t) \/ sgxsd_enclave_get_pending_request(t)
         \/ sgxsd_enclave_server_start_locked(t) \/ ServerInit(t)
         \/ sgxsd_enclave_server_call_locked(t) \/ sgxsd_enclave_ratelimit_fingerprint_locked(t)
         \/ Replies(t) \/ CallbackReturns(t) \/ StopChecks(t) \/ StopErases(t)
  PROVE  Effect(t)
<1>0. TypeOK /\ Flow
  BY DEF IInv
<1>f. FlowAt(t)
  BY <1>0 DEF Flow
<1>l. locks \in [LockNames -> BOOLEAN]
  BY <1>0 DEF TypeOK
<1>1. CASE sgxsd_enclave_remove_pending_request(t)
  <2>1. /\ th[t].at = "table2" /\ th[t].fn = "call" /\ node_initialized' = node_initialized
        /\ Release("table")
        /\ Goto(t, IF th[t].msg = th[t].prk THEN "callback" ELSE "server.unlock")
    BY <1>1 DEF sgxsd_enclave_remove_pending_request, Decrypt, nodeVars
  <2>2. /\ calls' = calls /\ rand_state' = rand_state /\ node_initialized' = node_initialized
        /\ dh_keypair' = dh_keypair /\ new_dh_keypair' = new_dh_keypair /\ known' = known
        /\ last_pending_request_id_val' = last_pending_request_id_val /\ responses' = responses
        /\ valid' = valid /\ replies' = replies /\ erased' = erased
    BY <1>1 DEF sgxsd_enclave_remove_pending_request, Decrypt, tableVars, nodeVars, serverVars
  <2>3. th'[t].at = (IF th[t].msg = th[t].prk THEN "callback" ELSE "server.unlock") /\ Keeps(t) /\ Others(t)
    BY Zenon, <1>0, <2>1, Going
  <2>f. FlowAt(t)'
    BY <1>f, <2>1, <2>3 DEF FlowAt, RandPlaces, TablePlaces, ServerFns, Keeps
  <2>4. Leads(t) /\ FlowAt(t)'
    BY <2>f, <1>1, <1>f, <2>1, <2>3 DEF Leads, FlowAt, RandPlaces, TablePlaces, InServer,
        ServerFns, AfterDraw, Keeps
  <2>l. /\ "table" \in LockNames \ {"rand"}
        /\ "table" = "table" => th[t].at \in TablePlaces
        /\ "table" \in Handles => th[t].h = "table" /\ (sgxsd_spin_unlock(t) \/ StopErases(t))
    BY <1>1, <1>f, <2>1, HandleAssumption DEF LockNames, TablePlaces, FlowAt, ServerFns
  <2>5. WritesLocks(t)
    BY Zenon, <1>0, <2>1, <2>l, LocksFreed
  <2>6. Writes(t)
    BY Zenon, <1>1, <2>2 DEF Writes
  <2> QED BY Zenon, <1>0, <2>1, <2>3, <2>4, <2>5, <2>6, FlowKept DEF Effect
<1>2. CASE sgxsd_enclave_get_pending_request(t)
  <2>1. /\ th[t].at = "table2" /\ th[t].fn = "fingerprint" /\ node_initialized' = node_initialized
        /\ Release("table")
        /\ Goto(t, IF th[t].msg = th[t].prk THEN "callback" ELSE "server.unlock")
    BY <1>2 DEF sgxsd_enclave_get_pending_request, Decrypt, nodeVars
  <2>2. /\ calls' = calls /\ rand_state' = rand_state /\ node_initialized' = node_initialized
        /\ dh_keypair' = dh_keypair /\ new_dh_keypair' = new_dh_keypair /\ known' = known
        /\ pending_requests' = pending_requests
        /\ last_pending_request_id_val' = last_pending_request_id_val /\ responses' = responses
        /\ taken' = taken /\ valid' = valid /\ replies' = replies /\ erased' = erased
    BY <1>2 DEF sgxsd_enclave_get_pending_request, Decrypt, tableVars, nodeVars, serverVars
  <2>3. th'[t].at = (IF th[t].msg = th[t].prk THEN "callback" ELSE "server.unlock") /\ Keeps(t) /\ Others(t)
    BY Zenon, <1>0, <2>1, Going
  <2>f. FlowAt(t)'
    BY <1>f, <2>1, <2>3 DEF FlowAt, RandPlaces, TablePlaces, ServerFns, Keeps
  <2>4. Leads(t) /\ FlowAt(t)'
    BY <2>f, <1>2, <1>f, <2>1, <2>3 DEF Leads, FlowAt, RandPlaces, TablePlaces, InServer,
        ServerFns, AfterDraw, Keeps
  <2>l. /\ "table" \in LockNames \ {"rand"}
        /\ "table" = "table" => th[t].at \in TablePlaces
        /\ "table" \in Handles => th[t].h = "table" /\ (sgxsd_spin_unlock(t) \/ StopErases(t))
    BY <1>2, <1>f, <2>1, HandleAssumption DEF LockNames, TablePlaces, FlowAt, ServerFns
  <2>5. WritesLocks(t)
    BY Zenon, <1>0, <2>1, <2>l, LocksFreed
  <2>6. Writes(t)
    BY Zenon, <1>2, <2>2 DEF Writes
  <2> QED BY Zenon, <1>0, <2>1, <2>3, <2>4, <2>5, <2>6, FlowKept DEF Effect
<1>3. CASE sgxsd_enclave_server_start_locked(t)
  <2>1. /\ th[t].at = "server" /\ th[t].fn = "start" /\ node_initialized' = node_initialized
        /\ locks' = locks
        /\ Goto(t, IF valid[th[t].h] THEN "server.unlock" ELSE "callback")
    BY <1>3 DEF sgxsd_enclave_server_start_locked, Moves, nodeVars
  <2>2. /\ calls' = calls /\ rand_state' = rand_state /\ node_initialized' = node_initialized
        /\ dh_keypair' = dh_keypair /\ new_dh_keypair' = new_dh_keypair /\ known' = known
        /\ pending_requests' = pending_requests
        /\ last_pending_request_id_val' = last_pending_request_id_val /\ responses' = responses
        /\ taken' = taken /\ valid' = valid /\ replies' = replies /\ erased' = erased
    BY <1>3 DEF sgxsd_enclave_server_start_locked, Moves, tableVars, nodeVars, serverVars
  <2>3. th'[t].at = (IF valid[th[t].h] THEN "server.unlock" ELSE "callback") /\ Keeps(t) /\ Others(t)
    BY Zenon, <1>0, <2>1, Going
  <2>f. FlowAt(t)'
    BY <1>f, <2>1, <2>3 DEF FlowAt, RandPlaces, TablePlaces, ServerFns, Keeps
  <2>4. Leads(t) /\ FlowAt(t)'
    BY <2>f, <1>3, <1>f, <2>1, <2>3 DEF Leads, FlowAt, RandPlaces, TablePlaces, InServer,
        ServerFns, AfterDraw, Keeps
  <2>5. WritesLocks(t)
    BY Zenon, <1>0, <2>1, LocksKept
  <2>6. Writes(t)
    BY Zenon, <1>3, <2>2 DEF Writes
  <2> QED BY Zenon, <1>0, <2>1, <2>3, <2>4, <2>5, <2>6, FlowKept DEF Effect
<1>4. CASE ServerInit(t)
  <2>1. /\ th[t].at = "callback" /\ th[t].fn = "start" /\ node_initialized' = node_initialized
        /\ locks' = locks /\ Goto(t, "server.unlock")
    BY <1>4 DEF ServerInit, nodeVars
  <2>2. /\ calls' = calls /\ rand_state' = rand_state /\ node_initialized' = node_initialized
        /\ dh_keypair' = dh_keypair /\ new_dh_keypair' = new_dh_keypair /\ known' = known
        /\ pending_requests' = pending_requests
        /\ last_pending_request_id_val' = last_pending_request_id_val /\ responses' = responses
        /\ taken' = taken /\ replies' = replies /\ erased' = erased
    BY <1>4 DEF ServerInit, tableVars, nodeVars, serverVars
  <2>3. th'[t].at = "server.unlock" /\ Keeps(t) /\ Others(t)
    BY Zenon, <1>0, <2>1, Going
  <2>f. FlowAt(t)'
    BY <1>f, <2>1, <2>3 DEF FlowAt, RandPlaces, TablePlaces, ServerFns, Keeps
  <2>4. Leads(t) /\ FlowAt(t)'
    BY <2>f, <1>4, <1>f, <2>1, <2>3 DEF Leads, FlowAt, RandPlaces, TablePlaces, InServer,
        ServerFns, AfterDraw, Keeps
  <2>5. WritesLocks(t)
    BY Zenon, <1>0, <2>1, LocksKept
  <2>6. Writes(t)
    BY Zenon, <1>4, <2>2 DEF Writes
  <2> QED BY Zenon, <1>0, <2>1, <2>3, <2>4, <2>5, <2>6, FlowKept DEF Effect
<1>5. CASE sgxsd_enclave_server_call_locked(t)
  <2>1. /\ th[t].at = "server" /\ th[t].fn = "call" /\ node_initialized' = node_initialized
        /\ locks' = locks
        /\ Goto(t, IF valid[th[t].h] /\ th[t].id # 0 THEN "table.lock" ELSE "server.unlock")
    BY <1>5 DEF sgxsd_enclave_server_call_locked, Moves, nodeVars
  <2>2. /\ calls' = calls /\ rand_state' = rand_state /\ node_initialized' = node_initialized
        /\ dh_keypair' = dh_keypair /\ new_dh_keypair' = new_dh_keypair /\ known' = known
        /\ pending_requests' = pending_requests
        /\ last_pending_request_id_val' = last_pending_request_id_val /\ responses' = responses
        /\ taken' = taken /\ valid' = valid /\ replies' = replies /\ erased' = erased
    BY <1>5 DEF sgxsd_enclave_server_call_locked, Moves, tableVars, nodeVars, serverVars
  <2>3. th'[t].at = (IF valid[th[t].h] /\ th[t].id # 0 THEN "table.lock" ELSE "server.unlock") /\ Keeps(t) /\ Others(t)
    BY Zenon, <1>0, <2>1, Going
  <2>f. FlowAt(t)'
    BY <1>f, <2>1, <2>3 DEF FlowAt, RandPlaces, TablePlaces, ServerFns, Keeps
  <2>4. Leads(t) /\ FlowAt(t)'
    BY <2>f, <1>5, <1>f, <2>1, <2>3 DEF Leads, FlowAt, RandPlaces, TablePlaces, InServer,
        ServerFns, AfterDraw, Keeps
  <2>5. WritesLocks(t)
    BY Zenon, <1>0, <2>1, LocksKept
  <2>6. Writes(t)
    BY Zenon, <1>5, <2>2 DEF Writes
  <2> QED BY Zenon, <1>0, <2>1, <2>3, <2>4, <2>5, <2>6, FlowKept DEF Effect
<1>6. CASE sgxsd_enclave_ratelimit_fingerprint_locked(t)
  <2>1. /\ th[t].at = "server" /\ th[t].fn = "fingerprint" /\ node_initialized' = node_initialized
        /\ locks' = locks
        /\ Goto(t, IF valid[th[t].h] /\ th[t].id # 0 THEN "table.lock" ELSE "server.unlock")
    BY <1>6 DEF sgxsd_enclave_ratelimit_fingerprint_locked, Moves, nodeVars
  <2>2. /\ calls' = calls /\ rand_state' = rand_state /\ node_initialized' = node_initialized
        /\ dh_keypair' = dh_keypair /\ new_dh_keypair' = new_dh_keypair /\ known' = known
        /\ pending_requests' = pending_requests
        /\ last_pending_request_id_val' = last_pending_request_id_val /\ responses' = responses
        /\ taken' = taken /\ valid' = valid /\ replies' = replies /\ erased' = erased
    BY <1>6 DEF sgxsd_enclave_ratelimit_fingerprint_locked, Moves, tableVars, nodeVars,
        serverVars
  <2>3. th'[t].at = (IF valid[th[t].h] /\ th[t].id # 0 THEN "table.lock" ELSE "server.unlock") /\ Keeps(t) /\ Others(t)
    BY Zenon, <1>0, <2>1, Going
  <2>f. FlowAt(t)'
    BY <1>f, <2>1, <2>3 DEF FlowAt, RandPlaces, TablePlaces, ServerFns, Keeps
  <2>4. Leads(t) /\ FlowAt(t)'
    BY <2>f, <1>6, <1>f, <2>1, <2>3 DEF Leads, FlowAt, RandPlaces, TablePlaces, InServer,
        ServerFns, AfterDraw, Keeps
  <2>5. WritesLocks(t)
    BY Zenon, <1>0, <2>1, LocksKept
  <2>6. Writes(t)
    BY Zenon, <1>6, <2>2 DEF Writes
  <2> QED BY Zenon, <1>0, <2>1, <2>3, <2>4, <2>5, <2>6, FlowKept DEF Effect
<1>7. CASE Replies(t)
  <2>1. /\ th[t].at = "callback" /\ th[t].fn = "call" /\ node_initialized' = node_initialized
        /\ locks' = locks
    BY <1>7 DEF Replies, nodeVars
  <2>2. /\ calls' = calls /\ rand_state' = rand_state /\ node_initialized' = node_initialized
        /\ dh_keypair' = dh_keypair /\ new_dh_keypair' = new_dh_keypair /\ known' = known
        /\ pending_requests' = pending_requests
        /\ last_pending_request_id_val' = last_pending_request_id_val /\ responses' = responses
        /\ taken' = taken /\ valid' = valid /\ erased' = erased
    BY <1>7 DEF Replies, tableVars, nodeVars, serverVars
  <2>3. /\ Others(t)
        /\ th'[t].at = th[t].at /\ th'[t].from = FALSE
        /\ th'[t].fn = th[t].fn /\ th'[t].h = th[t].h /\ th'[t].id = th[t].id
        /\ th'[t].key = th[t].key /\ th'[t].back = th[t].back /\ th'[t].prk = th[t].prk
    BY <1>7, <1>0 DEF Replies, Others, TypeOK, Local
  <2>f. FlowAt(t)'
    BY <1>f, <2>1, <2>3 DEF FlowAt, RandPlaces, TablePlaces, ServerFns
  <2>4. Leads(t) /\ FlowAt(t)'
    BY <2>f, <1>7, <1>f, <2>1, <2>3 DEF Leads, FlowAt, RandPlaces, TablePlaces, InServer,
        ServerFns, AfterDraw
  <2>5. WritesLocks(t)
    BY Zenon, <1>0, <2>1, LocksKept
  <2>6. Writes(t)
    BY Zenon, <1>7, <2>2 DEF Writes
  <2> QED BY Zenon, <1>0, <2>1, <2>3, <2>4, <2>5, <2>6, FlowKept DEF Effect
<1>8. CASE CallbackReturns(t)
  <2>1. /\ th[t].at = "callback" /\ th[t].fn \in {"call", "fingerprint", "stop"} /\ node_initialized' = node_initialized
        /\ locks' = locks /\ Goto(t, "server.unlock")
    BY <1>8 DEF CallbackReturns, Moves, nodeVars
  <2>2. /\ calls' = calls /\ rand_state' = rand_state /\ node_initialized' = node_initialized
        /\ dh_keypair' = dh_keypair /\ new_dh_keypair' = new_dh_keypair /\ known' = known
        /\ pending_requests' = pending_requests
        /\ last_pending_request_id_val' = last_pending_request_id_val /\ responses' = responses
        /\ taken' = taken /\ valid' = valid /\ replies' = replies /\ erased' = erased
    BY <1>8 DEF CallbackReturns, Moves, tableVars, nodeVars, serverVars
  <2>3. th'[t].at = "server.unlock" /\ Keeps(t) /\ Others(t)
    BY Zenon, <1>0, <2>1, Going
  <2>f. FlowAt(t)'
    BY <1>f, <2>1, <2>3 DEF FlowAt, RandPlaces, TablePlaces, ServerFns, Keeps
  <2>4. Leads(t) /\ FlowAt(t)'
    BY <2>f, <1>8, <1>f, <2>1, <2>3 DEF Leads, FlowAt, RandPlaces, TablePlaces, InServer,
        ServerFns, AfterDraw, Keeps
  <2>5. WritesLocks(t)
    BY Zenon, <1>0, <2>1, LocksKept
  <2>6. Writes(t)
    BY Zenon, <1>8, <2>2 DEF Writes
  <2> QED BY Zenon, <1>0, <2>1, <2>3, <2>4, <2>5, <2>6, FlowKept DEF Effect
<1>9. CASE StopChecks(t)
  <2>1. /\ th[t].at = "server" /\ th[t].fn = "stop" /\ node_initialized' = node_initialized
        /\ locks' = locks
        /\ Goto(t, IF valid[th[t].h] THEN "erase" ELSE "server.unlock")
    BY <1>9 DEF StopChecks, Moves, nodeVars
  <2>2. /\ calls' = calls /\ rand_state' = rand_state /\ node_initialized' = node_initialized
        /\ dh_keypair' = dh_keypair /\ new_dh_keypair' = new_dh_keypair /\ known' = known
        /\ pending_requests' = pending_requests
        /\ last_pending_request_id_val' = last_pending_request_id_val /\ responses' = responses
        /\ taken' = taken /\ valid' = valid /\ replies' = replies /\ erased' = erased
    BY <1>9 DEF StopChecks, Moves, tableVars, nodeVars, serverVars
  <2>3. th'[t].at = (IF valid[th[t].h] THEN "erase" ELSE "server.unlock") /\ Keeps(t) /\ Others(t)
    BY Zenon, <1>0, <2>1, Going
  <2>f. FlowAt(t)'
    BY <1>f, <2>1, <2>3 DEF FlowAt, RandPlaces, TablePlaces, ServerFns, Keeps
  <2>4. Leads(t) /\ FlowAt(t)'
    BY <2>f, <1>9, <1>f, <2>1, <2>3 DEF Leads, FlowAt, RandPlaces, TablePlaces, InServer,
        ServerFns, AfterDraw, Keeps
  <2>5. WritesLocks(t)
    BY Zenon, <1>0, <2>1, LocksKept
  <2>6. Writes(t)
    BY Zenon, <1>9, <2>2 DEF Writes
  <2> QED BY Zenon, <1>0, <2>1, <2>3, <2>4, <2>5, <2>6, FlowKept DEF Effect
<1>10. CASE StopErases(t)
  <2>1. /\ th[t].at = "erase" /\ node_initialized' = node_initialized
        /\ Release(th[t].h) /\ Goto(t, "callback")
    BY <1>10 DEF StopErases, nodeVars
  <2>2. /\ calls' = calls /\ rand_state' = rand_state /\ node_initialized' = node_initialized
        /\ dh_keypair' = dh_keypair /\ new_dh_keypair' = new_dh_keypair /\ known' = known
        /\ pending_requests' = pending_requests
        /\ last_pending_request_id_val' = last_pending_request_id_val /\ responses' = responses
        /\ taken' = taken /\ replies' = replies
    BY <1>10 DEF StopErases, tableVars, nodeVars, serverVars
  <2>3. th'[t].at = "callback" /\ Keeps(t) /\ Others(t)
    BY Zenon, <1>0, <2>1, Going
  <2>f. FlowAt(t)'
    BY <1>f, <2>1, <2>3 DEF FlowAt, RandPlaces, TablePlaces, ServerFns, Keeps
  <2>4. Leads(t) /\ FlowAt(t)'
    BY <2>f, <1>10, <1>f, <2>1, <2>3 DEF Leads, FlowAt, RandPlaces, TablePlaces, InServer,
        ServerFns, AfterDraw, Keeps
  <2>l. /\ th[t].h \in LockNames \ {"rand"}
        /\ th[t].h = "table" => th[t].at \in TablePlaces
        /\ th[t].h \in Handles => th[t].h = th[t].h /\ (sgxsd_spin_unlock(t) \/ StopErases(t))
    BY <1>10, <1>f, <2>1, HandleAssumption DEF LockNames, TablePlaces, FlowAt, ServerFns
  <2>5. WritesLocks(t)
    BY Zenon, <1>0, <2>1, <2>l, LocksFreed
  <2>6. Writes(t)
    BY Zenon, <1>10, <2>2 DEF Writes
  <2> QED BY Zenon, <1>0, <2>1, <2>3, <2>4, <2>5, <2>6, FlowKept DEF Effect
<1> QED
  BY Zenon, <1>1, <1>2, <1>3, <1>4, <1>5, <1>6, <1>7, <1>8, <1>9, <1>10

--------------------------------------------------------------------------------
\* The steps of a thread.
LEMMA Cases ==
  ASSUME IInv, NEW t \in Threads, Ecall(t) \/ Step(t)
  PROVE  \/ Arrives(t) \/ sgxsd_spin_lock(t) \/ sgxsd_spin_unlock(t) \/ NodeInitFails(t)
         \/ NodeInitDraws(t) \/ NodeInitSucceeds(t) \/ ReadRand(t)
         \/ sgxsd_enclave_generate_curve25519_keypair(t) \/ ReportCreated(t) \/ ReportFails(t)
         \/ StoreNewKeypair(t) \/ SetCurrentKeypair(t) \/ CopyStaticKeypair(t)
         \/ NextRequestId(t) \/ sgxsd_enclave_add_pending_request(t) \/ Respond(t)
         \/ RequestNotFound(t) \/ RequestFound(t) \/ sgxsd_enclave_remove_pending_request(t)
         \/ sgxsd_enclave_get_pending_request(t) \/ sgxsd_enclave_server_start_locked(t)
         \/ ServerInit(t) \/ sgxsd_enclave_server_call_locked(t)
         \/ sgxsd_enclave_ratelimit_fingerprint_locked(t) \/ Replies(t) \/ CallbackReturns(t)
         \/ StopChecks(t) \/ StopErases(t)
<1>0. TypeOK
  BY DEF IInv
<1>1. Ecall(t) => Arrives(t)
  BY <1>0, EcallArrives
<1>2. sgxsd_enclave_server_reply(t) \/ sgxsd_enclave_server_noreply(t) => Replies(t)
  BY ReplyReplies
<1> QED BY Zenon, <1>1, <1>2 DEF Step, sgxsd_enclave_node_init_locked, sgxsd_enclave_server_stop_locked

\* What every step writes, and where it leads.
LEMMA Effects ==
  ASSUME IInv, NEW t \in Threads, Ecall(t) \/ Step(t) PROVE Effect(t)
BY Zenon, Cases, NodeEffects, KeyEffects, CallEffects


\* The effects of a step, by what they are used for.
LEMMA Frames ==
  ASSUME IInv, NEW t \in Threads, Ecall(t) \/ Step(t)
  PROVE  /\ NextRequestId(t)
            \/ last_pending_request_id_val' = last_pending_request_id_val
         /\ \/ sgxsd_enclave_add_pending_request(t) \/ sgxsd_enclave_remove_pending_request(t)
            \/ pending_requests' = pending_requests
         /\ sgxsd_enclave_remove_pending_request(t) \/ taken' = taken
         /\ Respond(t) \/ responses' = responses
         /\ Replies(t) \/ replies' = replies
         /\ \A u \in Threads : u # t => th'[u] = th[u]
BY Zenon, Effects DEF Effect, Writes, Others

LEMMA Becomes ==
  ASSUME IInv, NEW t \in Threads, Ecall(t) \/ Step(t)
  PROVE  /\ th'[t].fn = "negotiate" /\ th'[t].at = "table2" => NextRequestId(t)
         /\ th'[t].fn = "negotiate" /\ th'[t].at = "respond"
              => sgxsd_enclave_add_pending_request(t)
         /\ th'[t].fn \in {"call", "fingerprint"} /\ th'[t].at = "table2" => RequestFound(t)
         /\ th'[t].fn = "call" /\ th'[t].at = "callback"
              => sgxsd_enclave_remove_pending_request(t) \/ Replies(t)
         /\ th'[t].from => \/ RequestFound(t)
                           \/ th[t].from /\ th'[t].id = th[t].id /\ th'[t].prk = th[t].prk
BY Zenon, Effects DEF Effect, Leads

LEMMA Draws ==
  ASSUME IInv, NEW t \in Threads, Ecall(t) \/ Step(t)
  PROVE  /\ th'[t].at = "rand2" => ReadRand(t)
         /\ sgxsd_enclave_generate_curve25519_keypair(t) \/ rand_state' = rand_state
         /\ known \subseteq known'
         /\ th'[t].fn = "negotiate" /\ th'[t].at \in AfterDraw =>
              \/ sgxsd_enclave_generate_curve25519_keypair(t)
              \/ CopyStaticKeypair(t)
              \/ /\ th[t].fn = "negotiate" /\ th[t].at \in AfterDraw
                 /\ th'[t].key = th[t].key /\ th'[t].prk = th[t].prk
                 /\ th'[t].at \in {"keys.lock", "keys"} <=> th[t].at \in {"keys.lock", "keys"}
<1>1. Effect(t)
  BY Effects
<1>2. known \subseteq known'
  BY <1>1 DEF Effect, Writes, sgxsd_enclave_generate_curve25519_keypair, ReportCreated
<1> QED BY Zenon, <1>1, <1>2 DEF Effect, Writes, Leads

--------------------------------------------------------------------------------
\* The types

LEMMA TypeStep ==
  ASSUME IInv, NEW t \in Threads, Ecall(t) \/ Step(t) PROVE TypeOK'
<1>0. TypeOK /\ Flow /\ FiniteGhosts /\ Effect(t) /\ th' \in [Threads -> Local]
  BY Zenon, Effects, LocalStep DEF IInv
<1>1. locks' \in [LockNames -> BOOLEAN] /\ Writes(t)
  BY <1>0 DEF Effect, WritesLocks
<1>2. /\ th[t].key \in Nat /\ th[t].id \in Nat /\ th[t].prk \in Nat \X Nat
      /\ SlotOf(th[t].id) \in Slots
  BY <1>0, SlotInRange DEF TypeOK, Local
<1>3. Cardinality(taken) \in Nat /\ Cardinality(replies) \in Nat
  BY <1>0, FS_CardinalityType DEF FiniteGhosts
<1>4. th[t].fn \in ServerFns => th[t].h \in Handles
  BY <1>0 DEF Flow, FlowAt
<1>5. node_initialized' \in BOOLEAN
  BY Zenon, <1>0, <1>1 DEF Writes, TypeOK, NodeInitSucceeds
<1>6. rand_state' \in Nat /\ dh_keypair' \in Nat /\ new_dh_keypair' \in Nat /\ known' \subseteq Nat
  <2>1. rand_state' \in Nat
    BY <1>0, <1>1, <1>2 DEF Writes, TypeOK, sgxsd_enclave_generate_curve25519_keypair,
       sgxsd_enclave_read_rand
  <2>2. dh_keypair' \in Nat /\ new_dh_keypair' \in Nat
    BY <1>0, <1>1, <1>2 DEF Writes, TypeOK, sgxsd_enclave_generate_curve25519_keypair,
       StoreNewKeypair, SetCurrentKeypair
  <2>3. known' \subseteq Nat
    BY <1>0, <1>1, <1>2 DEF Writes, TypeOK, sgxsd_enclave_generate_curve25519_keypair,
       ReportCreated
  <2> QED BY <2>1, <2>2, <2>3
<1>7. pending_requests' \in [Slots -> [id_val : Nat, hkdf_prk : Nat \X Nat]]
  <2>1. pending_requests \in [Slots -> [id_val : Nat, hkdf_prk : Nat \X Nat]]
    BY <1>0 DEF TypeOK
  <2>2. [id_val |-> th[t].id, hkdf_prk |-> th[t].prk] \in [id_val : Nat, hkdf_prk : Nat \X Nat]
    BY <1>2
  <2>3. NoRequest \in [id_val : Nat, hkdf_prk : Nat \X Nat]
    BY DEF NoRequest, NoPrk
  <2> QED BY <1>1, <1>2, <2>1, <2>2, <2>3 DEF Writes, sgxsd_enclave_add_pending_request,
             WriteRequest, sgxsd_enclave_remove_pending_request, ZeroRequest
<1>8. last_pending_request_id_val' \in Nat
  BY <1>0, <1>1 DEF Writes, TypeOK, NextRequestId
<1>9. responses' \subseteq [id : Nat, prk : Nat \X Nat]
  <2>1. responses \subseteq [id : Nat, prk : Nat \X Nat]
    BY <1>0 DEF TypeOK
  <2>2. [id |-> th[t].id, prk |-> th[t].prk] \in [id : Nat, prk : Nat \X Nat]
    BY <1>2
  <2> QED BY <1>1, <2>1, <2>2 DEF Writes, Respond
<1>10. taken' \subseteq [id : Nat, nth : Nat]
  <2>1. taken \subseteq [id : Nat, nth : Nat]
    BY <1>0 DEF TypeOK
  <2>2. [id |-> th[t].id, nth |-> Cardinality(taken)] \in [id : Nat, nth : Nat]
    BY <1>2, <1>3
  <2> QED BY <1>1, <2>1, <2>2 DEF Writes, sgxsd_enclave_remove_pending_request
<1>11. replies' \subseteq [id : Nat, nth : Nat]
  <2>1. replies \subseteq [id : Nat, nth : Nat]
    BY <1>0 DEF TypeOK
  <2>2. [id |-> th[t].id, nth |-> Cardinality(replies)] \in [id : Nat, nth : Nat]
    BY <1>2, <1>3
  <2> QED BY <1>1, <2>1, <2>2 DEF Writes, Replies
<1>12. valid' \in [Handles -> BOOLEAN] /\ erased' \subseteq Handles
  <2>1. valid \in [Handles -> BOOLEAN] /\ erased \subseteq Handles
    BY <1>0 DEF TypeOK
  <2>2. StopErases(t) => th[t].h \in Handles
    BY <1>0, <1>4 DEF StopErases, Flow, FlowAt, ServerFns
  <2>3. valid' \in [Handles -> BOOLEAN]
    BY <1>1, <2>1 DEF Writes, ServerInit, StopErases
  <2>4. erased' \subseteq Handles
    BY <1>1, <2>1, <2>2 DEF Writes, StopErases
  <2> QED BY <2>3, <2>4
<1>13. calls' \in Nat
  BY <1>0, <1>1 DEF Writes, TypeOK, Arrives
<1> QED BY <1>0, <1>1, <1>5, <1>6, <1>7, <1>8, <1>9, <1>10, <1>11, <1>12, <1>13 DEF TypeOK

LEMMA FlowStep ==
  ASSUME IInv, NEW t \in Threads, Ecall(t) \/ Step(t) PROVE Flow'
BY Zenon, Effects DEF Effect

--------------------------------------------------------------------------------
\* The locks

LEMMA RandLockStep ==
  ASSUME IInv, NEW t \in Threads, Ecall(t) \/ Step(t) PROVE RandLock'
<1>0. RandLock /\ Others(t) /\ WritesLocks(t) /\ Leads(t)
  BY Zenon, Effects DEF IInv, Effect
<1>l. locks \in [LockNames -> BOOLEAN] /\ "rand" \in LockNames
  BY DEF IInv, TypeOK, LockNames
<1>1. CASE sgxsd_spin_lock(t) /\ th[t].at = "rand.lock"
  <2>1. ~locks["rand"] /\ locks' = [locks EXCEPT !["rand"] = TRUE]
    BY <1>1 DEF sgxsd_spin_lock, LockOf
  <2> QED BY <1>0, <1>l, <2>1 DEF RandLock, Others
<1>2. CASE ReadRand(t)
  <2>1. th[t].at \in RandPlaces /\ locks' = locks
    BY <1>2 DEF ReadRand, RandPlaces
  <2> QED BY <1>0, <2>1 DEF RandLock, Others
<1>3. CASE sgxsd_enclave_generate_curve25519_keypair(t)
  <2>1. th[t].at \in RandPlaces /\ th'[t].at \notin RandPlaces
    BY <1>0, <1>3 DEF Leads, sgxsd_enclave_generate_curve25519_keypair, sgxsd_enclave_read_rand,
       RandPlaces, ReadRand, sgxsd_spin_lock
  <2> QED BY <1>0, <2>1 DEF RandLock, Others
<1>4. CASE /\ ~(sgxsd_spin_lock(t) /\ th[t].at = "rand.lock") /\ ~ReadRand(t)
           /\ ~sgxsd_enclave_generate_curve25519_keypair(t)
  <2>1. th'[t].at \notin RandPlaces /\ locks'["rand"] = locks["rand"]
    BY Zenon, <1>0, <1>4 DEF WritesLocks, Leads
  <2> QED BY <1>0, <2>1 DEF RandLock, Others
<1> QED BY <1>1, <1>2, <1>3, <1>4

LEMMA TableLockStep ==
  ASSUME IInv, NEW t \in Threads, Ecall(t) \/ Step(t) PROVE TableLock'
<1>0. TableLock /\ Others(t) /\ WritesLocks(t) /\ Leads(t)
  BY Zenon, Effects DEF IInv, Effect
<1>l. locks \in [LockNames -> BOOLEAN] /\ "table" \in LockNames
  BY DEF IInv, TypeOK, LockNames
<1>1. CASE sgxsd_spin_lock(t) /\ th[t].at = "table.lock"
  <2>1. ~locks["table"] /\ locks' = [locks EXCEPT !["table"] = TRUE]
    BY <1>1 DEF sgxsd_spin_lock, LockOf
  <2> QED BY <1>0, <1>l, <2>1 DEF TableLock, Others
<1>2. CASE NextRequestId(t) \/ RequestFound(t)
  <2>1. th[t].at \in TablePlaces /\ locks' = locks
    BY <1>2 DEF NextRequestId, RequestFound, TablePlaces
  <2> QED BY <1>0, <2>1 DEF TableLock, Others
<1>3. CASE /\ ~(sgxsd_spin_lock(t) /\ th[t].at = "table.lock")
           /\ ~NextRequestId(t) /\ ~RequestFound(t)
  <2>1. th'[t].at \notin TablePlaces
    BY Zenon, <1>0, <1>3 DEF Leads
  <2>2. th[t].at \in TablePlaces \/ locks'["table"] = locks["table"]
    BY Zenon, <1>0, <1>3 DEF WritesLocks
  <2> QED BY <1>0, <2>1, <2>2 DEF TableLock, Others
<1> QED BY <1>1, <1>2, <1>3

LEMMA ServerLockStep ==
  ASSUME IInv, NEW t \in Threads, Ecall(t) \/ Step(t) PROVE ServerLock'
<1>0. ServerLock /\ Others(t) /\ WritesLocks(t) /\ Leads(t) /\ Writes(t)
  BY Zenon, Effects DEF IInv, Effect
<1>l. locks \in [LockNames -> BOOLEAN] /\ Handles \subseteq LockNames /\ erased \subseteq erased'
  BY <1>0 DEF IInv, TypeOK, LockNames, Writes, StopErases
<1>1. CASE sgxsd_spin_lock(t) /\ th[t].at = "server.lock" /\ th[t].h \in Handles
  <2>1. ~locks[th[t].h] /\ locks' = [locks EXCEPT ![th[t].h] = TRUE] /\ erased' = erased
    BY <1>1 DEF sgxsd_spin_lock, LockOf, serverVars
  <2>2. th'[t].h = th[t].h
    BY <1>0, <1>1 DEF IInv, TypeOK, sgxsd_spin_lock, Goto
  <2> QED BY <1>0, <1>1, <1>l, <2>1, <2>2 DEF ServerLock, Others
<1>2. CASE sgxsd_spin_unlock(t)
  <2>1. th'[t].at \notin InServer /\ th[t].at \in InServer
    BY <1>2 DEF IInv, TypeOK, sgxsd_spin_unlock, Return, Outside, InServer
  <2>2. \A h \in Handles : h # th[t].h => locks'[h] = locks[h]
    BY <1>l, <1>2 DEF sgxsd_spin_unlock, Release
  <2> QED BY <1>0, <1>l, <2>1, <2>2 DEF ServerLock, Others
<1>3. CASE StopErases(t)
  <2>1. /\ th'[t].h = th[t].h /\ th[t].h \in erased' /\ th[t].at \in InServer
    BY <1>3 DEF IInv, TypeOK, StopErases, Goto, InServer
  <2>2. \A h \in Handles : h # th[t].h => locks'[h] = locks[h]
    BY <1>l, <1>3 DEF StopErases, Release
  <2> QED BY <1>0, <1>l, <2>1, <2>2 DEF ServerLock, Others
<1>4. CASE /\ ~(sgxsd_spin_lock(t) /\ th[t].at = "server.lock" /\ th[t].h \in Handles)
           /\ ~sgxsd_spin_unlock(t) /\ ~StopErases(t)
  <2>1. \A h \in Handles : locks'[h] = locks[h]
    BY Zenon, <1>0, <1>4 DEF WritesLocks
  <2>2. th'[t].at \in InServer /\ th'[t].h \in Handles =>
          th[t].at \in InServer /\ th'[t].h = th[t].h
    BY Zenon, <1>0, <1>4 DEF Leads
  <2>3. erased' = erased
    BY Zenon, <1>0, <1>4 DEF Writes
  <2> QED BY <1>0, <2>1, <2>2, <2>3 DEF ServerLock, Others
<1> QED BY <1>1, <1>2, <1>3, <1>4

--------------------------------------------------------------------------------
\* The key pairs known, and the requests looked up

LEMMA KnownStep ==
  ASSUME IInv, NEW t \in Threads, Ecall(t) \/ Step(t) PROVE Known'
<1>0. TypeOK /\ Flow /\ Known /\ Others(t) /\ Writes(t) /\ Leads(t)
  BY Zenon, Effects DEF IInv, Effect
<1>1. known \subseteq known'
  BY <1>0 DEF Writes, sgxsd_enclave_generate_curve25519_keypair, ReportCreated
<1>2. CASE sgxsd_enclave_generate_curve25519_keypair(t)
  <2>1. /\ th[t].at = "rand2" /\ th'[t].at = th[t].back /\ th'[t].back = th[t].back
        /\ th'[t].fn = th[t].fn /\ node_initialized' = node_initialized
        /\ dh_keypair' = IF th[t].back = "init2" THEN th[t].key ELSE dh_keypair
        /\ new_dh_keypair' = IF th[t].back = "init3" THEN th[t].key ELSE new_dh_keypair
        /\ th[t].fn = "node_init" => th[t].key \in known'
    BY <1>0, <1>2 DEF sgxsd_enclave_generate_curve25519_keypair, sgxsd_enclave_read_rand, Goto,
       TypeOK
  <2>2. th[t].back \in {"init2", "init3"} => th[t].fn = "node_init"
    BY <1>0, <2>1 DEF Flow, FlowAt, RandPlaces
  <2>3. th'[t].fn = "report" => th'[t].at = "report"
    BY <1>0, <2>1 DEF Flow, FlowAt, RandPlaces
  <2>4. th[t].back = "init3" => dh_keypair \in known
    BY <1>0, <2>1 DEF Known, RandPlaces
  <2>5. dh_keypair \in known => dh_keypair' \in known'
    BY <1>1, <2>1, <2>2
  <2>6. new_dh_keypair \in known => new_dh_keypair' \in known'
    BY <1>1, <2>1, <2>2
  <2> HIDE DEF TypeOK, Flow
  <2> QED BY <1>0, <1>1, <2>1, <2>2, <2>3, <2>4, <2>5, <2>6 DEF Known, Others, RandPlaces
<1>3. CASE ~sgxsd_enclave_generate_curve25519_keypair(t)
  <2>1. dh_keypair \in known /\ (SetCurrentKeypair(t) => new_dh_keypair \in known)
          => dh_keypair' \in known'
    BY <1>0, <1>1, <1>3 DEF Writes, SetCurrentKeypair
  <2>2. new_dh_keypair \in known /\ (StoreNewKeypair(t) => th[t].key \in known)
          => new_dh_keypair' \in known'
    BY <1>0, <1>1, <1>3 DEF Writes, StoreNewKeypair
  <2>3. SetCurrentKeypair(t) => node_initialized
    BY <1>0 DEF SetCurrentKeypair, Flow, FlowAt
  <2>4. StoreNewKeypair(t) => th[t].key \in known
    BY <1>0 DEF StoreNewKeypair, Known
  <2>5. SetCurrentKeypair(t) => new_dh_keypair \in known
    BY <1>0, <2>3 DEF Known
  <2>6. /\ dh_keypair \in known => dh_keypair' \in known'
        /\ new_dh_keypair \in known => new_dh_keypair' \in known'
    BY <2>1, <2>2, <2>4, <2>5
  <2>7. node_initialized' => dh_keypair \in known /\ new_dh_keypair \in known
    BY Zenon, <1>0 DEF Writes, NodeInitSucceeds, Known
  <2>8. ASSUME NEW u \in Threads
        PROVE  /\ th'[u].fn = "report" /\ th'[u].at \in {"keys.lock", "keys"}
                    => th'[u].key \in known'
               /\ th'[u].at \in {"init2", "init3"} => dh_keypair \in known
               /\ th'[u].at \in RandPlaces \cup {"rand.lock"} /\ th'[u].back = "init3"
                    => dh_keypair \in known
               /\ th'[u].at = "init3" => new_dh_keypair \in known
    <3>1. CASE u # t
      BY <1>0, <1>1, <3>1 DEF Known, Others
    <3>2. ReportCreated(t) => th'[t].key \in known'
      BY <1>0 DEF ReportCreated, Goto, TypeOK
    <3>3. th'[t].at \notin {"init2", "init3"}
      BY Zenon, <1>0, <1>3 DEF Leads
    <3>4. th'[t].fn = "report" /\ th'[t].at \in {"keys.lock", "keys"} => th'[t].key \in known'
      <4>1. \/ ReportCreated(t)
            \/ th[t].fn = "report" /\ th[t].at \in {"keys.lock", "keys"} /\ th'[t].key = th[t].key
            \/ ~(th'[t].fn = "report" /\ th'[t].at \in {"keys.lock", "keys"})
        BY Zenon, <1>0 DEF Leads
      <4> QED BY <1>0, <1>1, <3>2, <4>1 DEF Known
    <3>5. th'[t].at \in RandPlaces \cup {"rand.lock"} /\ th'[t].back = "init3"
            => dh_keypair \in known
      BY Zenon, <1>0 DEF Leads, Known
    <3> QED BY <3>1, <3>3, <3>4, <3>5
  <2> QED BY <2>6, <2>7, <2>8 DEF Known
<1> QED BY <1>2, <1>3

LEMMA LookingStep ==
  ASSUME IInv, NEW t \in Threads, Ecall(t) \/ Step(t) PROVE Looking'
<1>0. Looking /\ Others(t) /\ Writes(t) /\ Leads(t) /\ th \in [Threads -> Local]
  BY Zenon, Effects DEF IInv, Effect, TypeOK
<1>1. responses \subseteq responses'
  BY <1>0 DEF Writes, Respond
<1>2. ASSUME NEW u \in Threads, th'[u].fn \in {"call", "fingerprint"}
      PROVE  /\ th'[u].id = 0 \/ \E r \in responses' : r.id = th'[u].id
             /\ th'[u].at \in TablePlaces \cup {"table.lock"} => th'[u].id # 0
  <2>1. CASE u # t
    BY <1>0, <1>1, <1>2, <2>1 DEF Looking, Others
  <2>2. CASE u = t /\ Arrives(t)
    <3>1. PICK L \in Local : Arrived(L) /\ th' = [th EXCEPT ![t] = L]
      BY Zenon, <2>2 DEF Arrives
    <3>2. th'[t] = L
      BY <1>0, <3>1
    <3>3. /\ L.id = 0 \/ \E r \in responses : r.id = L.id
          /\ L.at \notin TablePlaces \cup {"table.lock"}
      BY <3>1 DEF Arrived, TablePlaces
    <3> QED BY <1>1, <2>2, <3>2, <3>3
  <2>3. CASE u = t /\ ~Arrives(t)
    <3>1. /\ th[t].fn \in {"call", "fingerprint"} /\ th'[t].id = th[t].id
          /\ th'[t].at \in TablePlaces \cup {"table.lock"} =>
               th'[t].id # 0 \/ th[t].at \in TablePlaces \cup {"table.lock"}
      BY Zenon, <1>0, <1>2, <2>3 DEF Leads
    <3> QED BY <1>0, <1>1, <2>3, <3>1 DEF Looking
  <2> QED BY <2>1, <2>2, <2>3
<1> QED BY <1>2 DEF Looking

================================================================================
