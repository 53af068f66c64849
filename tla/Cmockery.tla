------------------------------- MODULE Cmockery --------------------------------
(***************************************************************************)
(* The unit test framework kept beside the enclave (cmockery.c): queues of *)
(* mocked return values and of expected parameters, the list of allocated  *)
(* blocks with its check points, and the runner of tests, setups and       *)
(* teardowns.  The body of a test is a sequence of the framework's calls.  *)
(*                                                                         *)
(* The state s of the process: results and params are the two symbol maps  *)
(* (a symbol without a queue has the empty one), blocks the allocated      *)
(* blocks in order, running is global_running_test, jumped a longjmp to    *)
(* _run_test, exited an exit(-1), undefined the use of a freed check point.*)
(* cmockery.h is not in the repository: malloc is the C library's above    *)
(* line 1340 and _test_malloc below line 1374.                             *)
(***************************************************************************)
EXTENDS Utils

CONSTANTS MockedNames, Parameters   \* names of mocked functions and parameters

Head0 == 0      \* the head of the list of blocks
ALWAYS == -1    \* the count of a value that is returned any number of times

Fresh == [results |-> [f \in MockedNames |-> <<>>],
          params |-> [p \in MockedNames \X Parameters |-> <<>>],
          blocks |-> <<>>, nextId |-> 1, returned |-> <<>>,
          running |-> FALSE, jumped |-> FALSE, exited |-> FALSE, undefined |-> FALSE]

Stopped(s) == s.jumped \/ s.exited \/ s.undefined

exit_test(s) == IF s.running THEN [s EXCEPT !.jumped = TRUE] ELSE [s EXCEPT !.exited = TRUE]

fail(s) == exit_test(s)

initialize_testing(s) == [s EXCEPT !.results = Fresh.results, !.params = Fresh.params]

teardown_testing(s) == [s EXCEPT !.results = Fresh.results, !.params = Fresh.params]
--------------------------------------------------------------------------------
(* Queues of values *)

add_symbol_value(map, symbol, value, refcount) ==
  [map EXCEPT ![symbol] = Append(@, [value |-> value, refcount |-> refcount])]

\* A reference count that starts below zero never gets to zero.
Taken(queue) ==
  IF queue[1].refcount = 1 THEN Tail(queue) ELSE [queue EXCEPT ![1].refcount = @ - 1]

\* The values that may always be returned and have been, at the head of their queue.
remove_always_return_values(map) ==
  [symbol \in DOMAIN map |->
    IF map[symbol] # <<>> /\ map[symbol][1].refcount < ALWAYS THEN Tail(map[symbol]) ELSE map[symbol]]

check_for_leftover_values(map) == Cardinality({symbol \in DOMAIN map : map[symbol] # <<>>})

fail_if_leftover_values(s) ==
  The({IF check_for_leftover_values(t.results) > 0 \/ check_for_leftover_values(t.params) > 0 THEN exit_test(t) ELSE t :
       t \in {[s EXCEPT !.results = remove_always_return_values(@), !.params = remove_always_return_values(@)]}})

mock(s, fn) ==
  IF s.results[fn] = <<>> THEN exit_test(s)
  ELSE [s EXCEPT !.results[fn] = Taken(@), !.returned = Append(@, s.results[fn][1].value)]

will_return(s, fn, value, count) ==
  IF count > 0 \/ count = ALWAYS
  THEN [s EXCEPT !.results = add_symbol_value(@, fn, value, count)] ELSE fail(s)
--------------------------------------------------------------------------------
(* Expected parameters: a check has a kind and data *)

value_in_set(value, set, size, invert) ==
  IF \E i \in 1 .. size : set[i] = value THEN ~ invert ELSE invert

integer_in_range(value, min, max) == value >= min /\ value <= max

integer_not_in_range(value, min, max) == value < min \/ value > max

memory_equal(a, b) == {i \in 1 .. Len(b) : a[i] # b[i]} = {}

memory_not_equal(a, b) == {i \in 1 .. Len(b) : a[i] = b[i]} # 1 .. Len(b)

\* check->check_value(value, data)
check_value(check, value) ==
  \/ check.kind = "any"
  \/ check.kind \in {"value", "string"} /\ value = check.data
  \/ check.kind \in {"not_value", "not_string"} /\ value # check.data
  \/ check.kind = "in_range" /\ integer_in_range(value, check.data[1], check.data[2])
  \/ check.kind = "not_in_range" /\ integer_not_in_range(value, check.data[1], check.data[2])
  \/ check.kind = "in_set" /\ value_in_set(value, check.data, check.size, FALSE)
  \/ check.kind = "not_in_set" /\ value_in_set(value, check.data, check.size, TRUE)
  \/ check.kind = "memory" /\ memory_equal(value, check.data)
  \/ check.kind = "not_memory" /\ memory_not_equal(value, check.data)

\* A count is not checked, and a count of 0 is taken for a missing value once.  Memory
\* to compare with must not be empty.
expect_check(s, symbol, check, count) ==
  IF check.kind \in {"memory", "not_memory"} /\ check.data = <<>> THEN fail(s)
  ELSE [s EXCEPT !.params = add_symbol_value(@, symbol, check, count)]

\* The size of the set is never stored: it is what the allocated block held there, and
\* beyond are the words behind the set, which a larger size takes for its members.
expect_set(s, symbol, check, count, block) ==
  IF check.data = <<>> THEN fail(s)
  ELSE expect_check(s, symbol, [kind |-> check.kind, data |-> check.data \o block.beyond, size |-> block.size], count)

check_expected(s, symbol, value) ==
  IF s.params[symbol] = <<>> THEN exit_test(s)
  ELSE LET t == [s EXCEPT !.params[symbol] = Taken(@)]
       IN IF s.params[symbol][1].refcount = 0 THEN exit_test(t)
          ELSE IF check_value(s.params[symbol][1].value, value) THEN t ELSE fail(t)

\* mock_assert outside of expect_assert_failure, and the _assert_ functions.
assert_true(s, result) == IF result THEN s ELSE fail(s)
--------------------------------------------------------------------------------
(* Blocks *)

test_malloc(s) ==
  [s EXCEPT !.blocks = Append(@, [id |-> s.nextId, guarded |-> TRUE]), !.nextId = @ + 1]

test_free(s, id) ==
  LET i == CHOOSE k \in DOMAIN s.blocks : s.blocks[k].id = id
  IN IF s.blocks[i].guarded THEN [s EXCEPT !.blocks = RemoveAt(@, i)] ELSE fail(s)

\* A write beyond the end of the newest block.
Overrun(s) == [s EXCEPT !.blocks[Len(s.blocks)].guarded = FALSE]

check_point_allocated_blocks(s) == IF s.blocks = <<>> THEN Head0 ELSE Last(s.blocks).id

\* The check point is a pointer to a block's node, which the block takes with it.
Dangling(s, check_point) == check_point # Head0 /\ \A k \in DOMAIN s.blocks : s.blocks[k].id # check_point

\* Blocks are allocated in the order of their ids.
Since(s, check_point) == SelectSeq([k \in DOMAIN s.blocks |-> s.blocks[k].id], LAMBDA id : id > check_point)

free_allocated_blocks(s, check_point) ==
  Steps(LAMBDA t, id : IF Stopped(t) THEN t ELSE test_free(t, id), s, Since(s, check_point))

fail_if_blocks_allocated(s, check_point) ==
  IF Dangling(s, check_point) THEN [s EXCEPT !.undefined = TRUE]
  ELSE IF Since(s, check_point) = <<>> THEN s
  ELSE The({IF Stopped(t) THEN t ELSE exit_test(t) : t \in {free_allocated_blocks(s, check_point)}})
--------------------------------------------------------------------------------
(* One call of a test's body.  Tests free and overrun the newest block that is not one *)
(* of the runner's two, if there is one.                                               *)
OwnsBlock(s) == Len(s.blocks) > 2

Perform(s, op) ==
  CASE op.op = "mock" -> mock(s, op.fn)
    [] op.op = "will_return" -> will_return(s, op.fn, op.value, op.count)
    [] op.op = "expect" -> expect_check(s, op.symbol, op.check, op.count)
    [] op.op = "expect_set" -> expect_set(s, op.symbol, op.check, op.count, op.block)
    [] op.op = "check" -> check_expected(s, op.symbol, op.value)
    [] op.op = "assert" -> assert_true(s, op.result)
    [] op.op = "malloc" -> test_malloc(s)
    [] op.op = "free" -> IF OwnsBlock(s) THEN test_free(s, Last(s.blocks).id) ELSE s
    [] op.op = "overrun" -> IF OwnsBlock(s) THEN Overrun(s) ELSE s

Function(s, body) == Steps(LAMBDA t, op : IF Stopped(t) THEN t ELSE Perform(t, op), s, body)

\* A failed test, one that jumped, is left with its blocks.
Leftovers(s) == IF Stopped(s) THEN s ELSE fail_if_leftover_values(s)
Leaks(s, test, check_point) ==
  IF Stopped(s) \/ test.type = "setup" THEN s ELSE fail_if_blocks_allocated(s, check_point)
Outcome(s) ==
  [s |-> [teardown_testing(s) EXCEPT !.running = FALSE, !.jumped = FALSE], rc |-> IF s.jumped THEN 1 ELSE 0]

run_test(s, test, heap_check_point) ==
  LET check_point == IF heap_check_point # Head0 THEN heap_check_point ELSE check_point_allocated_blocks(s)
      ran == Function([initialize_testing(s) EXCEPT !.running = TRUE], test.body)
  IN  The({Outcome(Leaks(emptied, test, check_point)) : emptied \in {The({Leftovers(t) : t \in {ran}})}})

\* r: the state of the runner's loop.
Begins(r, test) ==
  CASE test.type = "test" -> [r EXCEPT !.run_next_test = TRUE, !.check_point = Head0]
    [] test.type = "setup" ->
         [r EXCEPT !.check_point = check_point_allocated_blocks(r.s), !.run_next_test = TRUE,
                   !.test_states = Append(@, check_point_allocated_blocks(r.s))]
    [] test.type = "teardown" /\ r.test_states # <<>> ->
         [r EXCEPT !.check_point = Last(r.test_states), !.test_states = Front(@)]
    [] test.type = "teardown" /\ r.test_states = <<>> -> [r EXCEPT !.s = fail(@)]

\* Mutant of Counts: a teardown that fails after its test is another failure.
CountsTeardown(r, test, failed) ==
  CASE test.type = "test" -> [r EXCEPT !.previous_test_failed = failed, !.total_failed = @ + failed]
    [] test.type = "setup" -> [r EXCEPT !.previous_test_failed = 0, !.total_failed = @ + failed,
                                        !.run_next_test = failed = 0]
    [] test.type = "teardown" -> [r EXCEPT !.total_failed = @ + failed]

Counts(r, test, failed) ==
  CASE test.type = "test" -> [r EXCEPT !.previous_test_failed = failed, !.total_failed = @ + failed]
    [] test.type = "setup" -> [r EXCEPT !.previous_test_failed = 0, !.total_failed = @ + failed,
                                        !.run_next_test = failed = 0]
    [] test.type = "teardown" ->
         [r EXCEPT !.total_failed = @ + IF failed = 1 /\ r.previous_test_failed = 0 THEN 1 ELSE 0]

\* failed_names[total_failed], written before the failure is counted.
Noted(r, test, ran) ==
  [r EXCEPT !.s = ran.s,
            !.failed_names = IF ran.rc = 1 THEN [@ EXCEPT ![r.total_failed] = test.name] ELSE @]
RunNext(r, test) == The({Counts(Noted(r, test, ran), test, ran.rc) : ran \in {run_test(r.s, test, r.check_point)}})

NextTest(r, test) ==
  IF Stopped(r.s) THEN r
  ELSE The({IF b.run_next_test /\ ~ Stopped(b.s) THEN RunNext(b, test) ELSE b : b \in {Begins(r, test)}})

\* test_states and failed_names are blocks of their own, allocated after the check
\* point and freed before it is looked at again.
Entered(s, tests) ==
  [s |-> test_malloc(test_malloc(s)), run_next_test |-> TRUE, previous_test_failed |-> 0, check_point |-> Head0,
   test_states |-> <<>>, total_failed |-> 0, failed_names |-> [i \in 0 .. Len(tests) - 1 |-> "none"]]

Finished(s, r) ==
  IF Stopped(r.s) THEN [s |-> r.s, total_failed |-> -1, failed_names |-> r.failed_names]
  ELSE [s |-> fail_if_blocks_allocated(test_free(test_free(r.s, s.nextId), s.nextId + 1),
                                       check_point_allocated_blocks(s)),
        total_failed |-> IF r.test_states # <<>> THEN -1 ELSE r.total_failed,
        failed_names |-> r.failed_names]

run_tests(s, tests) == The({Finished(s, r) : r \in {Steps(NextTest, Entered(s, tests), tests)}})
================================================================================
