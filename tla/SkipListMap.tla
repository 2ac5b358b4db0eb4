------------------------------ MODULE SkipListMap ------------------------------
(***************************************************************************)
(* The map over the skip list (DataTypes/SkipListMap.hpp) as the index     *)
(* uses it (DataTypes/Index.hpp): insert, erase by key, the search for the *)
(* previous key, the iteration of Sum, and whether the list is empty.      *)
(* Each thread makes the calls of its list of jobs, one after the other.   *)
(***************************************************************************)
EXTENDS SkipList

\* Each scenario has the keys of the index when it starts, with the top layer
\* each one was given, and the jobs of each thread.
CONSTANT Scenario

VARIABLES jobs,    \* the calls that each thread has yet to make
          call     \* history: what each call has seen and done, for OrderedIndex

vars == <<snode, alloc, slist, frame, pc, jobs, call>>

Contents == {snode[n].key : n \in {m \in alloc : snode[m].linked}}

Below(j, k) == j # k /\ KeyLess(j, k)

Index == INSTANCE OrderedIndex
            WITH Key <- Key \cup {SentinelKey}, Before <- Below, Nothing <- Null,
                 contents <- Contents, call <- call

-----------------------------------------------------------------------------
(* The list that single inserts have built: skiplist_init, the constructor   *)
(* of TxnList, which inserts the key without a value, and the others.        *)

\* The node after key j in layer l, where "tops" gives each key's top layer.
After(place, tops, j, l) ==
    LET above == {k \in DOMAIN tops : Below(j, k) /\ tops[k] >= l}
    IN  IF above = {} THEN tail
        ELSE place[CHOOSE k \in above : \A m \in above : ~Below(m, k)]

Built(place, tops, n) ==
    IF n \in {head, tail}
    THEN [NewSnode(SentinelKey, MaxLayer) EXCEPT
             !.linked = TRUE,
             !.next = [l \in Layer |->
                         IF n = tail THEN Null
                         ELSE IF tops[SentinelKey] >= l THEN place[SentinelKey]
                         ELSE After(place, tops, SentinelKey, l)]]
    ELSE IF \E k \in DOMAIN tops : place[k] = n
    THEN LET key == CHOOSE k \in DOMAIN tops : place[k] = n
         IN  [NewSnode(key, tops[key]) EXCEPT
                 !.linked = TRUE,
                 !.next = [l \in Layer |-> IF l > tops[key] THEN Null
                                           ELSE After(place, tops, key, l)]]
    ELSE NewSnode(Null, 0)

Init ==
    \E s \in Scenario :
        LET tops == s.tops
            place == CHOOSE p \in [DOMAIN tops -> Node] :
                        \A j, k \in DOMAIN tops : j # k => p[j] # p[k]
            InLayer(l) == {k \in DOMAIN tops : tops[k] = l}
        IN  /\ snode = [n \in AllNode |-> Built(place, tops, n)]
            /\ alloc = {place[k] : k \in DOMAIN tops}
            /\ slist = [entries |-> Cardinality(DOMAIN tops),
                        layers |-> [l \in Layer |-> Cardinality(InLayer(l))],
                        top |-> Sets!Max({tops[k] : k \in DOMAIN tops})]
            /\ frame = [t \in Thread |-> EmptyFrame]
            /\ pc = [t \in Thread |-> "idle"]
            /\ jobs = s.jobs
            /\ call = [t \in Thread |-> Index!NoCall]

-----------------------------------------------------------------------------
(* A call begins and ends; in between it works.                              *)

Start(op) ==
    CASE op = "insert" -> [pc |-> "new", mode |-> "EQ", then |-> "insertFound"]
      [] op = "erase" -> [pc |-> "find", mode |-> "EQ", then |-> "eraseFound"]
      [] op = "previous" -> [pc |-> "find", mode |-> "SM", then |-> "previousFound"]
      [] OTHER -> [pc |-> "begin", mode |-> "EQ", then |-> "idle"]

Begin(t) ==
    /\ pc[t] = "idle" /\ jobs[t] # <<>>
    /\ LET job == Head(jobs[t])
           start == Start(job.op)
       IN  /\ Go(t, start.pc, [EmptyFrame EXCEPT !.key = job.key, !.mode = start.mode,
                                                 !.then = start.then])
           /\ call' = [call EXCEPT ![t] = [Index!NoCall EXCEPT
                                             !.op = job.op, !.key = job.key,
                                             !.always = Contents, !.ever = Contents]]
    /\ jobs' = [jobs EXCEPT ![t] = Tail(@)]
    /\ UNCHANGED memory

\* The call returns "answer" and drops its reference on n.
Finish(t, answer, n) ==
    /\ snode' = Dropped({n})
    /\ Go(t, "idle", EmptyFrame)
    /\ call' = [call EXCEPT ![t] = [Index!NoCall EXCEPT !.answer = answer]]
    /\ UNCHANGED <<alloc, slist, jobs>>

-----------------------------------------------------------------------------
(* insert: skiplist_insert_nodup of a new node, or the node with that key.   *)

\* new Node(), then the first lines of _skiplist_insert: each coin it throws for
\* the top layer may come up; it holds accessing_next of its own node.
NewNode(t) ==
    /\ pc[t] = "new"
    /\ \E n \in Node \ alloc, top \in Layer :
        /\ alloc' = alloc \cup {n}
        /\ snode' = [snode EXCEPT ![n] = [NewSnode(F(t).key, top) EXCEPT !.writing = TRUE]]
        /\ Go(t, "insert", [F(t) EXCEPT !.node = n])
    /\ UNCHANGED slist

\* The reference for the iterator it returns is taken once the node is linked.
InsertGrab(t) ==
    /\ pc[t] = "inserted"
    /\ snode' = Grabbed({F(t).node})
    /\ Go(t, "held", F(t))
    /\ UNCHANGED <<alloc, slist>>

InsertReturn(t) ==
    /\ pc[t] = "held"
    /\ Finish(t, Null, F(t).node)

\* delete: what the memory holds then is nothing of the list.
Delete(t, label) ==
    /\ alloc' = alloc \ {F(t).node}
    /\ snode' = [snode EXCEPT ![F(t).node] = NewSnode(Null, 0)]
    /\ Go(t, label, [F(t) EXCEPT !.node = Null, !.cur = Null, !.next = Null])
    /\ UNCHANGED slist

DeleteDuplicate(t) ==
    /\ pc[t] = "duplicate"
    /\ Delete(t, "find")

InsertAgain(t) ==
    /\ pc[t] = "insertFound" /\ F(t).cursor = Null
    /\ Go(t, "new", F(t))
    /\ UNCHANGED memory

InsertFound(t) ==
    /\ pc[t] = "insertFound" /\ F(t).cursor # Null
    /\ Finish(t, Null, F(t).cursor)

-----------------------------------------------------------------------------
(* erase(key): every node with the key, in a loop; a node is deleted once    *)
(* skiplist_wait_for_free has seen that nobody uses it.                      *)

\* Mutant: the key of the next entry is not compared.
HasEntry(t) == F(t).cursor # Null

HasKey(t) == F(t).cursor # Null /\ snode[F(t).cursor].key = F(t).key

EraseNext(t) ==
    /\ pc[t] = "eraseFound" /\ HasKey(t)
    /\ CallSuccessor(t, F(t), "eraseNode")
    /\ UNCHANGED memory

EraseReturn(t) ==
    /\ pc[t] = "eraseFound" /\ ~HasKey(t)
    /\ Finish(t, Null, F(t).cursor)

EraseRelease(t) ==
    /\ pc[t] = "erased"
    /\ snode' = Dropped({F(t).node})
    /\ Go(t, "wait", [F(t) EXCEPT !.cur = Null, !.next = Null, !.find = Null, !.at = Null,
                                  !.prevs = EmptyFrame.prevs, !.nexts = EmptyFrame.nexts])
    /\ UNCHANGED <<alloc, slist>>

\* skiplist_is_safe_to_free: three loads, then the one of ref_count.
WaitForUsers(t) ==
    /\ pc[t] = "wait"
    /\ Writable(F(t).node) /\ ~snode[F(t).node].modified /\ snode[F(t).node].removed
    /\ Go(t, "waitRefs", F(t))
    /\ UNCHANGED memory

DeleteErased(t) ==
    /\ pc[t] = "waitRefs"
    /\ IF snode[F(t).node].refs = 0 THEN Delete(t, "eraseFound")
       ELSE Go(t, "wait", F(t)) /\ UNCHANGED memory

-----------------------------------------------------------------------------
(* findPrev; begin and operator++ of the iterator; empty and size.           *)

\* The key without a value is before every other, so there is a previous one.
PreviousFound(t) ==
    /\ pc[t] = "previousFound" /\ F(t).cursor # Null
    /\ Finish(t, snode[F(t).cursor].key, F(t).cursor)

\* skiplist_begin, until it finds a next node.
BeginAtHead(t) ==
    /\ pc[t] \in {"begin", "first"} /\ (pc[t] = "first" => F(t).next = Null)
    /\ CallNext(t, [F(t) EXCEPT !.cur = head, !.layer = 0], "first")
    /\ UNCHANGED memory

\* Sum goes through the entries, with the key without a value, which is always
\* there, and reads each.
Visit(t, n) ==
    CallSuccessor(t, [F(t) EXCEPT !.cursor = n, !.visited = Append(@, snode[n].key)],
                  "advance")

FirstEntry(t) ==
    /\ At(t, "first") /\ F(t).next # tail /\ call[t].op = "sum"
    /\ Visit(t, F(t).next)
    /\ UNCHANGED memory

NextEntry(t) ==
    /\ pc[t] = "advance" /\ F(t).cursor # Null
    /\ snode' = Dropped({F(t).node})
    /\ Visit(t, F(t).cursor)
    /\ UNCHANGED <<alloc, slist>>

SumReturn(t) ==
    /\ pc[t] = "advance" /\ F(t).cursor = Null
    /\ Finish(t, F(t).visited, F(t).node)

\* TxnList::Empty: the map is empty, or its size is one.
EmptySize(t) ==
    /\ At(t, "first") /\ F(t).next # tail /\ call[t].op = "empty"
    /\ snode' = Dropped({F(t).next})
    /\ Go(t, "size", F(t))
    /\ UNCHANGED <<alloc, slist>>

EmptyReturn(t) ==
    /\ pc[t] = "size"
    /\ Finish(t, slist.entries = 1, Null)

-----------------------------------------------------------------------------

MapWork(t) ==
    \/ NewNode(t) \/ InsertGrab(t) \/ DeleteDuplicate(t) \/ InsertAgain(t)
    \/ EraseNext(t) \/ EraseRelease(t) \/ WaitForUsers(t) \/ DeleteErased(t)
    \/ BeginAtHead(t) \/ FirstEntry(t) \/ NextEntry(t) \/ EmptySize(t)

\* What changes the contents of the index is the effect of the caller.
Work(t) ==
    /\ SkipListStep(t) \/ MapWork(t)
    /\ call' = Index!Seen([call EXCEPT ![t].acted = @ \/ Contents' # Contents], Contents')
    /\ UNCHANGED jobs

MapReturn(t) ==
    \/ InsertReturn(t) \/ InsertFound(t) \/ EraseReturn(t) \/ PreviousFound(t)
    \/ SumReturn(t) \/ EmptyReturn(t)

Step(t) == Begin(t) \/ Work(t) \/ MapReturn(t)

Done(t) == pc[t] = "idle" /\ jobs[t] = <<>>

\* Every thread has made its calls.
Finished == (\A t \in Thread : Done(t)) /\ UNCHANGED vars

Next == (\E t \in Thread : Step(t)) \/ Finished

Spec == Init /\ [][Next]_vars

\* A thread that can go on is scheduled.
FairSpec == Spec /\ \A t \in Thread : WF_vars(Step(t))
================================================================================
