---------------------------- MODULE UserStatements ----------------------------
(***************************************************************************)
(* src/app/Entities/odb/User-odb.cxx, the persistence code that ODB        *)
(* generated for User, on one pooled connection.                           *)
(*                                                                         *)
(* The connection keeps one image of a User for all its statements.  A     *)
(* text column of the image is a buffer that is reallocated when a longer  *)
(* text comes; INSERT, UPDATE and SELECT each hold pointers to the         *)
(* buffers.  image.version counts the reallocations, and a statement binds *)
(* again when the version it has bound is not the image's.                 *)
(*                                                                         *)
(* A buffer only grows, so its capacity identifies it: a binding holds the *)
(* capacity of the buffer it points to, and points to freed memory when    *)
(* the image's is another.  What is read there is Garbage.                 *)
(*                                                                         *)
(* libodb-pgsql, which is external: a fetch into a buffer that is too      *)
(* small sets the size and the truncated flag and leaves the content; a    *)
(* refetch fills the truncated columns only.                               *)
(***************************************************************************)
EXTENDS Naturals, FiniteSets

CONSTANTS Columns,   \* text columns of User
          Values,    \* texts
          Size,      \* their lengths
          Capacity,  \* of a new buffer
          Objects,   \* Users that callers store
          Ids,       \* bound: ids the id column can hold
          Garbage

ASSUME StatementsAssumption ==
    /\ Size \in [Values -> Nat] /\ Capacity \in Nat \ {0}
    /\ Objects \subseteq [Columns -> Values]
    /\ Garbage \notin Values

VARIABLES
    table,      \* committed rows, a function from ids to objects
    image,      \* sts.image()
    idImage,    \* sts.id_image(), shared by all statements
    idBound,    \* its binding, the tail of the UPDATE's, has been set
    binding,    \* insert, update and select_image_binding, with their versions
    truncated,  \* sts.select_image_truncated()
    request,    \* the call in progress
    pc,         \* idle, execute, fetch, refetch, init
    selected,   \* rows of the result set not loaded yet
    delivered,  \* the object handed out last, with its id
    outcome     \* how the last call has ended

image_vars == <<image, idImage, idBound, binding, truncated>>
vars == <<table, image_vars, request, pc, selected, delivered, outcome>>

Requests == [op : {"persist"}, object : Objects]
       \cup [op : {"update"}, id : Ids, object : Objects]
       \cup [op : {"erase", "select"}, ids : SUBSET Ids, key : BOOLEAN]

NoRows == [i \in {} |-> 0]
None == [op |-> "none"]
Nothing == [id |-> 0]
With(f, id, o) == [i \in DOMAIN f \cup {id} |-> IF i = id THEN o ELSE f[i]]
Without(f, S) == [i \in DOMAIN f \ S |-> f[i]]
Larger(a, b) == IF a < b THEN b ELSE a

Init ==
    /\ table \in UNION {[S -> Objects] : S \in SUBSET Ids}
    /\ image = [id |-> 0, value |-> [c \in Columns |-> Garbage], size |-> [c \in Columns |-> 0],
                cap |-> [c \in Columns |-> Capacity], version |-> 0]
    /\ idImage = 0 /\ idBound = FALSE
    /\ binding = [k \in {"insert", "update", "select"} |->
                    [version |-> 0, bound |-> FALSE, buffer |-> [c \in Columns |-> 0]]]
    /\ truncated = {}
    /\ request = None /\ pc = "idle" /\ selected = NoRows /\ delivered = Nothing
    /\ outcome = "none"
-------------------------------------------------------------------------------
(* Images and bindings.                                                      *)

\* A buffer grows to the size that is needed; one that does is a new one.
Grown(cap, size) == [c \in Columns |-> Larger(cap[c], size[c])]

\* Seeded fault: init does not report that a buffer was reallocated.
init_image_Silent(im, o) ==
    LET size == [c \in Columns |-> Size[o[c]]]
    IN  [im EXCEPT !.value = o, !.size = size, !.cap = Grown(im.cap, size)]

\* init(image, object), and im.version++ if a buffer grew.
init_image(im, o) ==
    LET size == [c \in Columns |-> Size[o[c]]]
        cap == Grown(im.cap, size)
    IN  [im EXCEPT !.value = o, !.size = size, !.cap = cap,
                   !.version = IF cap # im.cap THEN @ + 1 ELSE @]

\* grow: capacity(size) of the truncated columns, and im.version++.  The new
\* buffers hold nothing yet.
grow(im, t) ==
    LET cap == [c \in Columns |-> IF c \in t THEN Larger(im.cap[c], im.size[c]) ELSE im.cap[c]]
    IN  [im EXCEPT !.cap = cap, !.value = [c \in Columns |-> IF c \in t THEN Garbage ELSE @[c]],
                   !.version = IF t # {} THEN @ + 1 ELSE @]

\* if (im.version != sts.xxx_image_version() || imb.version == 0) bind(...).
bind(b, im) ==
    IF im.version # b.version \/ ~b.bound
    THEN [version |-> im.version, bound |-> TRUE, buffer |-> im.cap]
    ELSE b

\* What a statement reads through a binding.
Parameters(b) == [c \in Columns |-> IF b.buffer[c] = image.cap[c] THEN image.value[c] ELSE Garbage]

\* The columns of a row that do not fit into what is bound, and the image once
\* the columns C of the row have been copied through binding b.
TooLong(b, row) == {c \in Columns : Size[row[c]] > b.buffer[c]}
Copied(im, b, row, C) ==
    [im EXCEPT !.value = [c \in Columns |-> IF c \in C /\ b.buffer[c] = im.cap[c] THEN row[c] ELSE @[c]]]

\* init(object, image) reads `size' characters of the buffer.
init_object ==
    [c \in Columns |-> IF image.value[c] # Garbage /\ Size[image.value[c]] = image.size[c]
                       THEN image.value[c] ELSE Garbage]
-------------------------------------------------------------------------------
(* The operations, up to the execution of their statement.                   *)

Asks(r) ==
    /\ pc = "idle" /\ pc' = "execute"
    /\ request' = r /\ delivered' = Nothing /\ outcome' = "none"
    /\ UNCHANGED <<table, truncated, selected>>

persist(o) ==
    /\ Asks([op |-> "persist", object |-> o])
    /\ image' = init_image(image, o)
    /\ binding' = [binding EXCEPT !.insert = bind(@, image')]
    /\ idBound' = TRUE /\ idImage' = idImage

\* Seeded fault: the id's parameter is taken to be bound already.
update_Unbound(id, o) ==
    /\ Asks([op |-> "update", id |-> id, object |-> o])
    /\ idImage' = id
    /\ image' = init_image(image, o)
    /\ binding' = [binding EXCEPT !.update = bind(@, image')]
    /\ idBound' = idBound

update(id, o) ==
    /\ Asks([op |-> "update", id |-> id, object |-> o])
    /\ idImage' = id
    /\ image' = init_image(image, o)
    /\ binding' = [binding EXCEPT !.update = bind(@, image')]
    /\ idBound' = TRUE

erase(id) ==
    /\ Asks([op |-> "erase", ids |-> {id}, key |-> TRUE])
    /\ idImage' = id /\ idBound' = TRUE
    /\ UNCHANGED <<image, binding>>

\* The WHERE clause carries its own parameters.
erase_query(S) ==
    /\ Asks([op |-> "erase", ids |-> S, key |-> FALSE])
    /\ UNCHANGED <<image, idImage, idBound, binding>>

\* Seeded fault: find_ relies on the binding of the last SELECT.
find_Unchecked(id) ==
    /\ Asks([op |-> "select", ids |-> {id}, key |-> TRUE])
    /\ idImage' = id /\ idBound' = TRUE
    /\ binding' = [binding EXCEPT !.select = IF ~@.bound THEN bind(@, image) ELSE @]
    /\ UNCHANGED image

\* find and reload, by way of find_.
find(id) ==
    /\ Asks([op |-> "select", ids |-> {id}, key |-> TRUE])
    /\ idImage' = id /\ idBound' = TRUE
    /\ binding' = [binding EXCEPT !.select = bind(@, image)]
    /\ UNCHANGED image

\* S are the ids of the rows that the WHERE clause selects.
query(S) ==
    /\ Asks([op |-> "select", ids |-> S, key |-> FALSE])
    /\ binding' = [binding EXCEPT !.select = bind(@, image)]
    /\ UNCHANGED <<image, idImage, idBound>>
-------------------------------------------------------------------------------
(* The execution.                                                            *)

Returns(how) == pc' = "idle" /\ request' = None /\ selected' = NoRows /\ outcome' = how

\* The rows an UPDATE, a DELETE or a SELECT means: by the id image or by a
\* WHERE clause.
Where(r) == IF r.op = "update" \/ r.key THEN (IF idBound THEN {idImage} ELSE {}) ELSE r.ids

\* INSERT ... RETURNING id.
ExecuteInsert ==
    /\ pc = "execute" /\ request.op = "persist"
    /\ \E id \in Ids \ DOMAIN table :
          /\ table' = With(table, id, Parameters(binding.insert))
          /\ idImage' = IF idBound THEN id ELSE idImage
          /\ delivered' = [id |-> idImage', object |-> request.object]
    /\ Returns("done")
    /\ UNCHANGED <<image, idBound, binding, truncated>>

\* The rows that a statement means are there.
Affects(r) == Where(r) \cap DOMAIN table # {}

\* An UPDATE of no row throws object_not_persistent.
ExecuteUpdate ==
    /\ pc = "execute" /\ request.op = "update"
    /\ table' = [i \in DOMAIN table |->
                    IF i \in Where(request) THEN Parameters(binding.update) ELSE table[i]]
    /\ Returns(IF Affects(request) THEN "done" ELSE "object_not_persistent")
    /\ UNCHANGED <<image_vars, delivered>>

\* So does a DELETE by id; a DELETE by query returns the number of its rows.
ExecuteDelete ==
    /\ pc = "execute" /\ request.op = "erase"
    /\ table' = Without(table, Where(request))
    /\ Returns(IF request.key => Affects(request) THEN "done" ELSE "object_not_persistent")
    /\ UNCHANGED <<image_vars, delivered>>

ExecuteSelect ==
    /\ pc = "execute" /\ request.op = "select"
    /\ pc' = "fetch"
    /\ selected' = [i \in DOMAIN table \cap Where(request) |-> table[i]]
    /\ UNCHANGED <<table, image_vars, request, delivered, outcome>>

\* The statement fails; the images and bindings stay as they are.
ExecuteThrows ==
    /\ pc = "execute"
    /\ Returns("failed")
    /\ UNCHANGED <<table, image_vars, delivered>>
-------------------------------------------------------------------------------
(* Loading a row, in find_ and by the iterator of a query's result.          *)

\* fetch: the next row of the result set, into what the SELECT has bound.
fetch(id) ==
    /\ pc = "fetch" /\ id \in DOMAIN selected
    /\ LET row == selected[id]
       IN  /\ truncated' = TooLong(binding.select, row)
           /\ image' = [Copied(image, binding.select, row, Columns \ truncated') EXCEPT
                          !.id = id, !.size = [c \in Columns |-> Size[row[c]]]]
    /\ pc' = IF truncated' = {} THEN "init" ELSE "refetch"
    /\ UNCHANGED <<table, idImage, idBound, binding, request, selected, delivered, outcome>>

\* Seeded fault: the buffers grow and the row is not fetched again.
refetch_Missing ==
    /\ pc = "refetch" /\ pc' = "init"
    /\ image' = grow(image, truncated)
    /\ binding' = [binding EXCEPT !.select = bind(@, image')]
    /\ truncated' = {}
    /\ UNCHANGED <<table, idImage, idBound, request, selected, delivered, outcome>>

\* A truncated row: grow the buffers, bind them and fetch again.
refetch ==
    /\ pc = "refetch" /\ pc' = "init"
    /\ LET grown == grow(image, truncated)
           b == bind(binding.select, grown)
       IN  /\ image' = Copied(grown, b, selected[image.id], truncated)
           /\ binding' = [binding EXCEPT !.select = b]
    /\ truncated' = {}
    /\ UNCHANGED <<table, idImage, idBound, request, selected, delivered, outcome>>

\* The object is initialized from the image and handed out.
init_loaded ==
    /\ pc = "init" /\ pc' = "fetch"
    /\ delivered' = [id |-> image.id, object |-> init_object]
    /\ selected' = Without(selected, {image.id})
    /\ UNCHANGED <<table, image_vars, request, outcome>>

\* No row is left, or the caller of a query has the one it wants
\* (getUserByUsername).
ResultEnds ==
    /\ pc = "fetch"
    /\ selected = NoRows \/ (~request.key /\ delivered # Nothing)
    /\ Returns("done")
    /\ UNCHANGED <<table, image_vars, delivered>>

\* Another connection commits.
OthersWrite ==
    /\ \E id \in Ids :
          \/ table' = Without(table, {id})
          \/ \E o \in Objects : table' = With(table, id, o)
    /\ UNCHANGED <<image_vars, request, pc, selected, delivered, outcome>>
-------------------------------------------------------------------------------
Next ==
    \/ \E o \in Objects : persist(o) \/ \E id \in Ids : update(id, o)
    \/ \E id \in Ids : erase(id) \/ find(id) \/ fetch(id)
    \/ \E S \in SUBSET Ids : query(S) \/ erase_query(S)
    \/ ExecuteInsert \/ ExecuteUpdate \/ ExecuteDelete \/ ExecuteSelect \/ ExecuteThrows
    \/ refetch \/ init_loaded \/ ResultEnds \/ OthersWrite

Spec == Init /\ [][Next]_vars
-------------------------------------------------------------------------------
\* The variables keep their types, apart from what is in delivered; a binding is to a version the image has had,
\* and the table holds no garbage.
TypeOK ==
    /\ DOMAIN table \subseteq Ids /\ \A i \in DOMAIN table : table[i] \in Objects
    /\ image.value \in [Columns -> Values \cup {Garbage}]
    /\ image.size \in [Columns -> Nat] /\ image.cap \in [Columns -> Nat] /\ image.version \in Nat
    /\ \A k \in DOMAIN binding : binding[k].version <= image.version
    /\ truncated \subseteq Columns /\ (truncated # {} <=> pc = "refetch")
    /\ request \in Requests \cup {None} /\ (request = None <=> pc = "idle")
    /\ idImage \in Ids \cup {0} /\ idBound \in BOOLEAN
    /\ pc \in {"idle", "execute", "fetch", "refetch", "init"}
    /\ DOMAIN selected \subseteq Ids
    /\ outcome \in {"none", "done", "failed", "object_not_persistent"}

\* The binding that the statement of a request reads or writes through.
Statement(r) ==
    CASE r.op = "persist" -> binding.insert
      [] r.op = "update"  -> binding.update
      [] r.op = "select"  -> binding.select

\* A statement runs, and a row is fetched, only through pointers to the buffers
\* the image has now and with the capacities they have: whichever of the other
\* statements, or which fetch, has reallocated them since it was bound.
NoStalePointer ==
    request.op \in {"persist", "update", "select"} => Statement(request).buffer = image.cap

\* Whatever texts the connection has seen before, a request stores exactly the
\* object it was given under its id, and delivers exactly the rows that its
\* statement has selected; it says that an object is not persistent only when no
\* row has its id.
Abstract == INSTANCE UserTable WITH rows <- table, executed <- pc \in {"fetch", "refetch", "init"}
ImplementsUserTable == Abstract!Spec
===============================================================================
