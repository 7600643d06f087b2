------------------------------- MODULE FuseNodes -------------------------------
(***************************************************************************)
(* Nodes and open files of the cloud disk service's FUSE session: LOOKUP,  *)
(* FORGET, GETATTR, OPEN and RELEASE, served by the threads of the session *)
(* loop while roots are replaced, retired and purged.                      *)
(*   services/clouddiskservice/fuse/src/cloud_disk_fuse_controller.cpp     *)
(*   services/clouddiskservice/fuse/src/cloud_disk_fuse_operations.cpp     *)
(*                                                                         *)
(* FuseController models the life of the session; here it is READY or not. *)
(* A critical section of mutex_ is one step.  A file is its inode; where   *)
(* it is found is a root.                                                  *)
(***************************************************************************)
EXTENDS Integers, FiniteSets, TLC

CONSTANTS
    Threads,      \* threads of the session loop
    Roots,
    Inodes,
    Found,        \* Found[i]: the roots under which inode i can be looked up
    MaxNodes,     \* MAX_NODE_CONTEXTS
    MaxOpen,      \* MAX_OPEN_CONTEXTS
    MaxOps        \* bound on requests and root changes

VARIABLES
    ready,        \* state_ = READY
    gen,          \* generation_
    roots,        \* roots_: [st, epoch]; st "READY", "WARMING", "RETIRING", "none"
    nodes,        \* nodes_: [id -> [root, inode, epoch, nlookup, open]]
    ident,        \* identityToNode_: [inode -> id]
    ctx,          \* openContexts_: [handle -> [node, root, gen, inode]]
    pendingOpen, nextNode, nextHandle,
    req,          \* req[t]: the request thread t serves
    kref,         \* kref[id]: references the kernel holds on a node
    khandle,      \* khandle[h]: the inode the kernel opened as handle h
    fds,          \* descriptors of backing files that are open
    moved,        \* nodes that a lookup found again under another root: a history
    ops

vars == <<ready, gen, roots, nodes, ident, ctx, pendingOpen, nextNode, nextHandle,
          req, kref, khandle, fds, moved, ops>>

None == "none"
NoReq == [op |-> None, node |-> 0, root |-> None, epoch |-> 0, inode |-> None,
          gen |-> 0, handle |-> 0]

Without(f, S) == [x \in DOMAIN f \ S |-> f[x]]

Init ==
    /\ ready = TRUE /\ gen = 1
    /\ roots = [r \in Roots |-> [st |-> "READY", epoch |-> 1]]
    /\ nodes = << >> /\ ident = << >> /\ ctx = << >>
    /\ pendingOpen = 0 /\ nextNode = 2 /\ nextHandle = 1
    /\ req = [t \in Threads |-> NoReq]
    /\ kref = << >> /\ khandle = << >> /\ fds = 0 /\ moved = {} /\ ops = 0

Count == ops < MaxOps /\ ops' = ops + 1
IgnoreEpoch(r, e) == roots[r].st = "READY"

RootCurrent(r, e) == roots[r].st = "READY" /\ roots[r].epoch = e

-----------------------------------------------------------------------------
(* LOOKUP.  ResolveLookup: CaptureLookupSnapshot, then the metadata of the *)
(* parent in one of the READY roots, then the backing path, outside the    *)
(* mutex; it waits once for a warm-up.  What it answers is an error or     *)
(* this result.                                                            *)
ResolveLookup(t, i, r) ==
    /\ Count
    /\ req[t] = NoReq /\ ready
    /\ r \in Found[i] /\ roots[r].st = "READY"
    /\ req' = [req EXCEPT ![t] = [NoReq EXCEPT !.op = "lookup", !.inode = i,
                                  !.root = r, !.epoch = roots[r].epoch]]
    /\ UNCHANGED <<ready, gen, roots, nodes, ident, ctx, pendingOpen, nextNode,
                   nextHandle, kref, khandle, fds, moved>>

RegisterLookupNode(t) ==
    LET q == req[t]
        known == q.inode \in DOMAIN ident
        id == IF known THEN ident[q.inode] ELSE nextNode
    IN /\ q.op = "lookup"
       /\ IF ~ready \/ ~RootCurrent(q.root, q.epoch)
             \/ (~known /\ Cardinality(DOMAIN nodes) >= MaxNodes)
          THEN /\ req' = [req EXCEPT ![t] = NoReq]
               /\ UNCHANGED <<nodes, ident, nextNode, moved>>
          ELSE /\ nodes' = (id :> [root |-> q.root, inode |-> q.inode, epoch |-> q.epoch,
                                   nlookup |-> IF known THEN nodes[id].nlookup + 1 ELSE 1,
                                   open |-> IF known THEN nodes[id].open ELSE 0]) @@ nodes
               /\ ident' = (q.inode :> id) @@ ident
               /\ moved' = IF known /\ nodes[id].root # q.root THEN moved \cup {id} ELSE moved
               /\ nextNode' = IF known THEN nextNode ELSE nextNode + 1
               /\ req' = [req EXCEPT ![t] = [q EXCEPT !.op = "entry", !.node = id]]
       /\ UNCHANGED <<ready, gen, roots, ctx, pendingOpen, nextHandle, kref, khandle,
                      fds, ops>>

(* A node without references is erased, with its identity.                 *)
NodeIsUsed(ns, id) == ns[id].nlookup > 0 \/ ns[id].open > 0

Collect(ns, id) ==
    IF id \in DOMAIN ns /\ ~NodeIsUsed(ns, id)
    THEN /\ nodes' = Without(ns, {id}) /\ ident' = Without(ident, {ns[id].inode})
    ELSE /\ nodes' = ns /\ UNCHANGED ident

Minus(n, k) == IF k >= n THEN 0 ELSE n - k

(* fuse_reply_entry; RollbackLookup when the kernel did not take it.       *)
ReplyEntry(t) ==
    LET id == req[t].node
    IN /\ req[t].op = "entry"
       /\ req' = [req EXCEPT ![t] = NoReq]
       /\ \/ /\ kref' = (id :> (IF id \in DOMAIN kref THEN kref[id] ELSE 0) + 1) @@ kref
             /\ UNCHANGED <<nodes, ident>>
          \/ /\ IF id \in DOMAIN nodes
                THEN Collect([nodes EXCEPT ![id].nlookup = Minus(@, 1)], id)
                ELSE UNCHANGED <<nodes, ident>>
             /\ UNCHANGED kref
       /\ UNCHANGED <<ready, gen, roots, ctx, pendingOpen, nextNode, nextHandle,
                      khandle, fds, ops, moved>>

(* FORGET, ForgetNode: the kernel gives back n of its references.          *)
Forget(id, n) ==
    /\ id \in DOMAIN kref /\ n \in 1..kref[id]
    /\ kref' = IF n = kref[id] THEN Without(kref, {id}) ELSE [kref EXCEPT ![id] = @ - n]
    /\ IF id \in DOMAIN nodes
       THEN Collect([nodes EXCEPT ![id].nlookup = Minus(@, n)], id)
       ELSE UNCHANGED <<nodes, ident>>
    /\ UNCHANGED <<ready, gen, roots, ctx, pendingOpen, nextNode, nextHandle, req,
                   khandle, fds, ops, moved>>

(* GETATTR and OPEN are refused for a node whose root changed since.       *)
GetAttrNode(id) ==
    /\ ready /\ id \in DOMAIN nodes
    /\ RootCurrent(nodes[id].root, nodes[id].epoch)

-----------------------------------------------------------------------------
(* OPEN.  ReserveOpen counts the open before the file is opened.           *)
ReserveOpen(t, id) ==
    /\ Count
    /\ req[t] = NoReq /\ id \in DOMAIN kref
    /\ GetAttrNode(id)
    /\ Cardinality(DOMAIN ctx) + pendingOpen < MaxOpen
    /\ pendingOpen' = pendingOpen + 1
    /\ req' = [req EXCEPT ![t] = [NoReq EXCEPT !.op = "open", !.node = id,
                  !.root = nodes[id].root, !.epoch = nodes[id].epoch,
                  !.inode = nodes[id].inode, !.gen = gen]]
    /\ UNCHANGED <<ready, gen, roots, nodes, ident, ctx, nextNode, nextHandle, kref,
                   khandle, fds, moved>>

(* OpenBackingFile: the file may be gone or be another one by now, and the *)
(* reservation is given back.                                              *)
OpenBackingFile(t) ==
    /\ req[t].op = "open"
    /\ \/ /\ req' = [req EXCEPT ![t].op = "commit"]
          /\ fds' = fds + 1
          /\ UNCHANGED pendingOpen
       \/ /\ req' = [req EXCEPT ![t] = NoReq]
          /\ pendingOpen' = Minus(pendingOpen, 1)
          /\ UNCHANGED fds
    /\ UNCHANGED <<ready, gen, roots, nodes, ident, ctx, nextNode, nextHandle, kref,
                   khandle, ops, moved>>

CommitReleases == Minus(pendingOpen, 1)

CommitOpen(t) ==
    LET q == req[t]
    IN /\ q.op = "commit"
       /\ pendingOpen' = CommitReleases
       /\ IF ready /\ gen = q.gen /\ q.node \in DOMAIN nodes /\ RootCurrent(q.root, q.epoch)
          THEN /\ ctx' = (nextHandle :> [node |-> q.node, root |-> q.root, gen |-> q.gen,
                                         inode |-> q.inode]) @@ ctx
               /\ nextHandle' = nextHandle + 1
               /\ nodes' = [nodes EXCEPT ![q.node].open = @ + 1]
               /\ req' = [req EXCEPT ![t].op = "opened", ![t].handle = nextHandle]
               /\ UNCHANGED fds
          ELSE /\ req' = [req EXCEPT ![t] = NoReq]
               /\ fds' = fds - 1
               /\ UNCHANGED <<ctx, nextHandle, nodes>>
       /\ UNCHANGED <<ready, gen, roots, ident, nextNode, kref, khandle, ops, moved>>

(* The end of an open file: its context, its node's count, its descriptor. *)
Close(h) ==
    LET id == ctx[h].node
    IN /\ ctx' = Without(ctx, {h})
       /\ fds' = fds - 1
       /\ IF id \in DOMAIN nodes /\ nodes[id].open > 0
          THEN Collect([nodes EXCEPT ![id].open = @ - 1], id)
          ELSE UNCHANGED <<nodes, ident>>

(* fuse_reply_open; RollbackOpen when the kernel did not take it.          *)
ReplyOpen(t) ==
    LET h == req[t].handle
    IN /\ req[t].op = "opened"
       /\ req' = [req EXCEPT ![t] = NoReq]
       /\ \/ /\ khandle' = (h :> req[t].inode) @@ khandle
             /\ UNCHANGED <<ctx, nodes, ident, fds>>
          \/ /\ IF h \in DOMAIN ctx THEN Close(h) ELSE UNCHANGED <<ctx, nodes, ident, fds>>
             /\ UNCHANGED khandle
       /\ UNCHANGED <<ready, gen, roots, pendingOpen, nextNode, nextHandle, kref, ops, moved>>

(* RELEASE, TakeOpenContext: a purged handle is answered with EBADF.       *)
Release(h) ==
    /\ h \in DOMAIN khandle
    /\ khandle' = Without(khandle, {h})
    /\ IF h \in DOMAIN ctx /\ ctx[h].gen = gen
       THEN Close(h)
       ELSE UNCHANGED <<ctx, nodes, ident, fds>>
    /\ UNCHANGED <<ready, gen, roots, pendingOpen, nextNode, nextHandle, req, kref, ops, moved>>

-----------------------------------------------------------------------------
(* What the controller does to the roots: AddRoot warms one up again ...   *)
AddRoot(r) ==
    /\ Count
    /\ roots' = [roots EXCEPT ![r] = [st |-> "WARMING", epoch |-> @.epoch + 1]]
    /\ UNCHANGED <<ready, gen, nodes, ident, ctx, pendingOpen, nextNode, nextHandle, req,
                   kref, khandle, fds, moved>>

WarmedUp(r) ==
    /\ roots[r].st = "WARMING"
    /\ roots' = [roots EXCEPT ![r].st = "READY"]
    /\ UNCHANGED <<ready, gen, nodes, ident, ctx, pendingOpen, nextNode, nextHandle, req,
                   kref, khandle, fds, ops, moved>>

(* ... RemoveRoot retires one ...                                          *)
RemoveRoot(r) ==
    /\ roots[r].st \in {"READY", "WARMING"}
    /\ Count
    /\ roots' = [roots EXCEPT ![r] = [st |-> "RETIRING", epoch |-> @.epoch + 1]]
    /\ UNCHANGED <<ready, gen, nodes, ident, ctx, pendingOpen, nextNode, nextHandle, req,
                   kref, khandle, fds, moved>>

(* ... and PurgeRootLocked forgets its open files and its nodes.           *)
HandlesRestart(r) ==
    LET hs == {h \in DOMAIN ctx : ctx[h].root = r}
        ns == {n \in DOMAIN nodes : nodes[n].root = r}
    IN /\ roots[r].st = "RETIRING"
       /\ roots' = [roots EXCEPT ![r].st = "none"]
       /\ ctx' = Without(ctx, hs) /\ fds' = fds - Cardinality(hs)
       /\ nodes' = Without(nodes, ns) /\ ident' = Without(ident, {nodes[n].inode : n \in ns})
       /\ nextHandle' = IF hs = DOMAIN ctx THEN 1 ELSE nextHandle
       /\ UNCHANGED <<ready, gen, pendingOpen, nextNode, req, kref, khandle, ops, moved>>

PurgeRoot(r) ==
    LET hs == {h \in DOMAIN ctx : ctx[h].root = r}
        ns == {n \in DOMAIN nodes : nodes[n].root = r}
    IN /\ roots[r].st = "RETIRING"
       /\ roots' = [roots EXCEPT ![r].st = "none"]
       /\ ctx' = Without(ctx, hs)
       /\ fds' = fds - Cardinality(hs)
       /\ nodes' = Without(nodes, ns)
       /\ ident' = Without(ident, {nodes[n].inode : n \in ns})
       /\ UNCHANGED <<ready, gen, pendingOpen, nextNode, nextHandle, req, kref, khandle,
                      ops, moved>>

(* The session drains: requests still arrive but are refused.              *)
Drain ==
    /\ ready /\ Count
    /\ ready' = FALSE
    /\ UNCHANGED <<gen, roots, nodes, ident, ctx, pendingOpen, nextNode, nextHandle, req,
                   kref, khandle, fds, moved>>

(* The loop has been joined and the file system unmounted: PurgeAllLocked, *)
(* and the next session starts with new numbers and a new generation.      *)
NextSession ==
    /\ ~ready /\ \A t \in Threads : req[t] = NoReq
    /\ ready' = TRUE /\ gen' = gen + 1
    /\ nodes' = << >> /\ ident' = << >> /\ ctx' = << >>
    /\ fds' = fds - Cardinality(DOMAIN ctx)
    /\ pendingOpen' = 0 /\ nextNode' = 2 /\ nextHandle' = 1
    /\ kref' = << >> /\ khandle' = << >> /\ moved' = {}
    /\ UNCHANGED <<roots, req, ops>>

Next ==
    \/ \E t \in Threads, i \in Inodes, r \in Roots : ResolveLookup(t, i, r)
    \/ \E t \in Threads : RegisterLookupNode(t) \/ ReplyEntry(t) \/ OpenBackingFile(t)
                          \/ CommitOpen(t) \/ ReplyOpen(t)
    \/ \E id \in DOMAIN kref : \E n \in 1..kref[id] : Forget(id, n)
    \/ \E t \in Threads, id \in DOMAIN kref : ReserveOpen(t, id)
    \/ \E h \in DOMAIN khandle : Release(h)
    \/ \E r \in Roots : AddRoot(r) \/ WarmedUp(r) \/ RemoveRoot(r) \/ PurgeRoot(r)
    \/ Drain
    \/ NextSession

Spec == Init /\ [][Next]_vars

-----------------------------------------------------------------------------
Serving(op) == {t \in Threads : req[t].op = op}

TypeOK ==
    /\ \A id \in DOMAIN nodes : nodes[id].nlookup \in Nat /\ nodes[id].open \in Nat
    /\ DOMAIN ident \subseteq Inodes
    /\ pendingOpen \in 0..MaxOpen /\ fds \in Nat

(* A node lives exactly as long as the kernel, a reply or an open file     *)
(* refers to it, and its count is the number of these references.          *)
LookupsAreCounted ==
    \A id \in DOMAIN nodes :
        /\ nodes[id].nlookup = (IF id \in DOMAIN kref THEN kref[id] ELSE 0)
                               + Cardinality({t \in Serving("entry") : req[t].node = id})
        /\ nodes[id].nlookup > 0 \/ nodes[id].open > 0

(* A node is found again by its identity, and by no other one.             *)
IdentitiesAgree ==
    /\ \A i \in DOMAIN ident : ident[i] \in DOMAIN nodes /\ nodes[ident[i]].inode = i
    /\ \A id \in DOMAIN nodes : ident[nodes[id].inode] = id

(* The opens under way and the open files together keep to the limit, and  *)
(* a reservation is given back once on every path.                         *)
OpensAreReserved ==
    /\ pendingOpen = Cardinality(Serving("open") \cup Serving("commit"))
    /\ Cardinality(DOMAIN ctx) + pendingOpen <= MaxOpen

(* Every descriptor belongs to an open file or to an open under way.       *)
NoDescriptorLeak == fds = Cardinality(DOMAIN ctx) + Cardinality(Serving("commit"))

(* The file behind a handle is the file the kernel opened with it.         *)
HandlesKeepTheirFile ==
    \A h \in DOMAIN khandle \cap DOMAIN ctx : ctx[h].inode = khandle[h]

(* A node's open count is the number of its open files: an open file whose *)
(* root is purged does not hold its node for ever.  Excepted is a node that *)
(* a lookup took along to another root: PurgeRoot of the old one closes its *)
(* open files without lowering the count, which then is never too low.     *)
OpensAreCounted ==
    \A id \in DOMAIN nodes :
        LET files == Cardinality({h \in DOMAIN ctx : ctx[h].node = id})
        IN /\ nodes[id].open >= files
           /\ id \notin moved => nodes[id].open = files

(* No file is opened in a root that was replaced or retired since the node *)
(* was looked up, although the open itself happens outside the mutex.      *)
OpensAreCurrent ==
    \A h \in DOMAIN ctx' : h \notin DOMAIN ctx =>
        /\ roots[ctx'[h].root].st = "READY"
        /\ ctx'[h].gen = gen
        /\ \E t \in Threads : req[t].op = "commit"
                /\ req[t].epoch = roots[req[t].root].epoch
=============================================================================
