------------------------- MODULE UserStatementsProofs -------------------------
(***************************************************************************)
(* Proofs about UserStatements for any columns, texts, buffer capacity and *)
(* ids.  The inductive invariant relates a binding's version to the        *)
(* image's, and the content of the image to the request or the row.        *)
(***************************************************************************)
EXTENDS UserStatements, TLAPS

Kinds == {"insert", "update", "select"}
Tables == UNION {[S -> Objects] : S \in SUBSET Ids}
Images == [id : Ids \cup {0}, value : [Columns -> Values \cup {Garbage}], size : [Columns -> Nat],
           cap : [Columns -> Nat], version : Nat]
Outcomes == {"none", "done", "failed", "object_not_persistent"}
Bindings == [version : Nat, bound : BOOLEAN, buffer : [Columns -> Nat]]

Types ==
    /\ table \in Tables /\ selected \in Tables
    /\ image \in Images /\ binding \in [Kinds -> Bindings]
    /\ idImage \in Ids \cup {0} /\ idBound \in BOOLEAN
    /\ truncated \subseteq Columns /\ (truncated # {} <=> pc = "refetch")
    /\ request \in Requests \cup {None} /\ (request = None <=> pc = "idle")
    /\ pc \in {"idle", "execute", "fetch", "refetch", "init"}
    /\ outcome \in Outcomes

\* The version of a binding is not ahead of the image's, and where they agree the
\* pointers are those of the image.
Fresh(b, im) == b.version <= im.version /\ (b.bound /\ b.version = im.version => b.buffer = im.cap)
Current(b, im) == b.bound /\ b.version = im.version

BindingInv ==
    /\ \A k \in Kinds : Fresh(binding[k], image)
    /\ request.op = "persist" => Current(binding["insert"], image)
    /\ request.op = "update" => Current(binding["update"], image)
    /\ request.op = "select" => Current(binding["select"], image)

\* What is about to be executed: the image holds the object, and the id image
\* the id.
RequestInv ==
    /\ pc \in {"fetch", "refetch", "init"} => request.op = "select"
    /\ pc \in {"idle", "execute"} => selected = NoRows
    /\ pc = "execute" =>
          /\ request.op \in {"persist", "update"} => image.value = request.object /\ idBound
          /\ request.op = "update" => idImage = request.id
          /\ request.op \in {"erase", "select"} /\ request.key => idBound /\ request.ids = {idImage}

\* What has been fetched: the row, up to the columns that were truncated.
RowInv ==
    pc \in {"refetch", "init"} =>
        /\ image.id \in DOMAIN selected
        /\ image.size = [c \in Columns |-> Size[selected[image.id][c]]]
        /\ \A c \in Columns \ truncated : image.value[c] = selected[image.id][c]

IInv == Types /\ BindingInv /\ RequestInv /\ RowInv
-------------------------------------------------------------------------------
(* Objects, images and bindings.                                             *)

LEMMA ObjectFacts ==
    ASSUME NEW o \in Objects
    PROVE  /\ o \in [Columns -> Values] /\ o = [c \in Columns |-> o[c]]
           /\ \A c \in Columns : o[c] \in Values /\ o[c] # Garbage /\ Size[o[c]] \in Nat
  BY StatementsAssumption

LEMMA LargerFacts ==
    ASSUME NEW a \in Nat, NEW b \in Nat
    PROVE  Larger(a, b) \in Nat /\ a <= Larger(a, b) /\ b <= Larger(a, b)
  BY DEF Larger

\* A binding is fresh for an image that is as it was, or of a later version.
LEMMA StaysFresh ==
    ASSUME NEW im \in Images, NEW new \in Images, NEW b \in Bindings, Fresh(b, im),
           \/ new.version = im.version /\ new.cap = im.cap
           \/ new.version = im.version + 1
    PROVE  Fresh(b, new)
  <1>1. im.version \in Nat /\ new.version \in Nat /\ b.version \in Nat
    BY DEF Images, Bindings
  <1>2. CASE new.version = im.version /\ new.cap = im.cap
    BY <1>2 DEF Fresh
  <1>3. CASE new.version = im.version + 1
    <2>1. b.version <= new.version /\ b.version # new.version
      BY <1>1, <1>3 DEF Fresh
    <2> QED BY <2>1 DEF Fresh
  <1> QED BY <1>2, <1>3

\* init(image, object): the image holds the object, and its version tells a
\* reallocation.
LEMMA InitImage ==
    ASSUME NEW im \in Images, NEW o \in Objects
    PROVE  /\ init_image(im, o) \in Images /\ init_image(im, o).value = o
           /\ \A b \in Bindings : Fresh(b, im) => Fresh(b, init_image(im, o))
  <1> DEFINE size == [c \in Columns |-> Size[o[c]]]
             cap == Grown(im.cap, size)
             version == IF cap # im.cap THEN im.version + 1 ELSE im.version
             new == init_image(im, o)
  <1>1. size \in [Columns -> Nat] /\ o \in [Columns -> Values \cup {Garbage}]
    BY ObjectFacts
  <1>2. /\ im.cap \in [Columns -> Nat] /\ im.version \in Nat
        /\ im = [id |-> im.id, value |-> im.value, size |-> im.size, cap |-> im.cap, version |-> im.version]
        /\ im.id \in Ids \cup {0}
    BY DEF Images
  <1>3. cap \in [Columns -> Nat]
    <2>1. ASSUME NEW c \in Columns PROVE Larger(im.cap[c], size[c]) \in Nat
      BY <1>1, <1>2, LargerFacts
    <2> QED BY <2>1 DEF Grown
  <1>4. version \in Nat
    BY <1>2
  <1>5. new = [im EXCEPT !.value = o, !.size = size, !.cap = cap, !.version = version]
    BY DEF init_image
  <1> HIDE DEF size, cap, version, new
  <1>6. /\ new.id = im.id /\ new.value = o /\ new.size = size /\ new.cap = cap /\ new.version = version
        /\ new \in Images
    BY <1>1, <1>2, <1>3, <1>4, <1>5 DEF Images
  <1>7. (version = im.version /\ cap = im.cap) \/ version = im.version + 1
    BY DEF version
  <1>8. \A b \in Bindings : Fresh(b, im) => Fresh(b, new)
    BY <1>6, <1>7, StaysFresh
  <1> QED BY <1>6, <1>8 DEF new

\* Binding again makes a binding current; it stays as it is if it is.
LEMMA BindFacts ==
    ASSUME NEW im \in Images, NEW b \in Bindings, Fresh(b, im)
    PROVE  bind(b, im) \in Bindings /\ Fresh(bind(b, im), im) /\ Current(bind(b, im), im)
  <1>1. CASE im.version # b.version \/ ~b.bound
    <2> DEFINE n == [version |-> im.version, bound |-> TRUE, buffer |-> im.cap]
    <2>1. bind(b, im) = n
      BY <1>1 DEF bind
    <2>2. im.version \in Nat /\ im.cap \in [Columns -> Nat]
      BY DEF Images
    <2>3. n \in Bindings /\ n.version = im.version /\ n.bound = TRUE /\ n.buffer = im.cap
      BY <2>2 DEF Bindings
    <2>4. im.version <= im.version
      BY <2>2
    <2> HIDE DEF n
    <2> QED BY <2>1, <2>3, <2>4 DEF Fresh, Current
  <1>2. CASE ~(im.version # b.version \/ ~b.bound)
    BY <1>2 DEF bind, Current
  <1> QED BY <1>1, <1>2

\* grow: new buffers for the truncated columns, and a new version.
LEMMA GrowFacts ==
    ASSUME NEW im \in Images, NEW t \in SUBSET Columns, t # {}
    PROVE  /\ grow(im, t) \in Images /\ grow(im, t).id = im.id /\ grow(im, t).size = im.size
           /\ \A c \in Columns \ t : grow(im, t).value[c] = im.value[c]
           /\ \A b \in Bindings : Fresh(b, im) => Fresh(b, grow(im, t))
  <1> DEFINE cap == [c \in Columns |-> IF c \in t THEN Larger(im.cap[c], im.size[c]) ELSE im.cap[c]]
             value == [c \in Columns |-> IF c \in t THEN Garbage ELSE im.value[c]]
             new == grow(im, t)
  <1>1. /\ im.cap \in [Columns -> Nat] /\ im.version \in Nat /\ im.size \in [Columns -> Nat]
        /\ im.id \in Ids \cup {0} /\ im.value \in [Columns -> Values \cup {Garbage}]
    BY DEF Images
  <1>2. cap \in [Columns -> Nat]
    <2>1. ASSUME NEW c \in Columns PROVE Larger(im.cap[c], im.size[c]) \in Nat
      BY <1>1, LargerFacts
    <2> QED BY <1>1, <2>1
  <1>3. value \in [Columns -> Values \cup {Garbage}] /\ \A c \in Columns \ t : value[c] = im.value[c]
    BY <1>1
  <1>4. im.version + 1 \in Nat
    BY <1>1
  <1>5. new = [im EXCEPT !.cap = cap, !.value = value, !.version = im.version + 1]
    BY DEF grow
  <1> HIDE DEF cap, value, new
  <1>6. /\ new.id = im.id /\ new.value = value /\ new.size = im.size /\ new.version = im.version + 1
        /\ new \in Images
    BY <1>1, <1>2, <1>3, <1>4, <1>5 DEF Images
  <1>7. \A b \in Bindings : Fresh(b, im) => Fresh(b, new)
    BY <1>6, StaysFresh
  <1> QED BY <1>3, <1>6, <1>7 DEF new

\* A fetch copies the columns C of a row, through current pointers.
LEMMA CopiedFacts ==
    ASSUME NEW im \in Images, NEW b \in Bindings, Fresh(b, im), Current(b, im),
           NEW row \in Objects, NEW C \in SUBSET Columns
    PROVE  /\ Copied(im, b, row, C) \in Images
           /\ Copied(im, b, row, C).id = im.id /\ Copied(im, b, row, C).size = im.size
           /\ Copied(im, b, row, C).cap = im.cap /\ Copied(im, b, row, C).version = im.version
           /\ \A c \in Columns : Copied(im, b, row, C).value[c] = IF c \in C THEN row[c] ELSE im.value[c]
  <1> DEFINE value == [c \in Columns |-> IF c \in C /\ b.buffer[c] = im.cap[c] THEN row[c] ELSE im.value[c]]
             new == Copied(im, b, row, C)
  <1>1. b.buffer = im.cap
    BY DEF Fresh, Current
  <1>2. im.value \in [Columns -> Values \cup {Garbage}] /\ row \in [Columns -> Values]
    BY ObjectFacts DEF Images
  <1>3. value \in [Columns -> Values \cup {Garbage}]
    BY <1>2
  <1>4. \A c \in Columns : value[c] = IF c \in C THEN row[c] ELSE im.value[c]
    BY <1>1
  <1>5. new = [im EXCEPT !.value = value]
    BY DEF Copied
  <1> HIDE DEF value, new
  <1>6. /\ new \in Images /\ new.id = im.id /\ new.size = im.size /\ new.cap = im.cap
        /\ new.version = im.version /\ new.value = value
    BY <1>3, <1>5 DEF Images
  <1> QED BY <1>4, <1>6 DEF new
-------------------------------------------------------------------------------
(* Tables and requests.                                                      *)

LEMMA TableFacts ==
    ASSUME NEW f \in Tables
    PROVE  DOMAIN f \subseteq Ids /\ f = [i \in DOMAIN f |-> f[i]] /\ \A i \in DOMAIN f : f[i] \in Objects
  BY DEF Tables

LEMMA TableMade == ASSUME NEW S \in SUBSET Ids, NEW f \in [S -> Objects] PROVE f \in Tables
  BY DEF Tables

LEMMA TableChanges ==
    ASSUME NEW f \in Tables
    PROVE  /\ NoRows \in Tables
           /\ \A S : Without(f, S) \in Tables
           /\ \A id \in Ids, o \in Objects : With(f, id, o) \in Tables
  <1>1. DOMAIN f \subseteq Ids /\ \A i \in DOMAIN f : f[i] \in Objects
    BY TableFacts
  <1>2. NoRows \in [{} -> Objects]
    BY DEF NoRows
  <1>3. NoRows \in Tables
    BY <1>2, TableMade
  <1>4. ASSUME NEW S PROVE Without(f, S) \in Tables
    <2>1. Without(f, S) \in [DOMAIN f \ S -> Objects]
      BY <1>1 DEF Without
    <2> QED BY <1>1, <2>1, TableMade
  <1>5. ASSUME NEW id \in Ids, NEW o \in Objects PROVE With(f, id, o) \in Tables
    <2>1. With(f, id, o) \in [DOMAIN f \cup {id} -> Objects]
      BY <1>1 DEF With
    <2> QED BY <1>1, <2>1, TableMade
  <1> QED BY <1>3, <1>4, <1>5

LEMMA RequestFacts ==
    /\ None.op = "none" /\ None \notin Requests
    /\ \A r \in Requests :
          /\ r.op \in {"persist", "update", "erase", "select"}
          /\ r.op \in {"persist", "update"} => r.object \in Objects
          /\ r.op = "update" => r.id \in Ids
          /\ r.op \in {"erase", "select"} => r.ids \subseteq Ids /\ r.key \in BOOLEAN
  <1>1. None.op = "none"
    BY DEF None
  <1>2. ASSUME NEW r \in Requests
        PROVE  /\ r.op \in {"persist", "update", "erase", "select"}
               /\ r.op \in {"persist", "update"} => r.object \in Objects
               /\ r.op = "update" => r.id \in Ids
               /\ r.op \in {"erase", "select"} => r.ids \subseteq Ids /\ r.key \in BOOLEAN
    <2>1. CASE r \in [op : {"persist"}, object : Objects]
      BY <2>1
    <2>2. CASE r \in [op : {"update"}, id : Ids, object : Objects]
      BY <2>2
    <2>3. CASE r \in [op : {"erase", "select"}, ids : SUBSET Ids, key : BOOLEAN]
      BY <2>3
    <2> QED BY <2>1, <2>2, <2>3 DEF Requests
  <1> QED BY <1>1, <1>2

\* The requests of the operations.
LEMMA RequestsMade ==
    /\ \A o \in Objects : [op |-> "persist", object |-> o] \in Requests
    /\ \A id \in Ids, o \in Objects : [op |-> "update", id |-> id, object |-> o] \in Requests
    /\ \A S \in SUBSET Ids, k \in BOOLEAN, op \in {"erase", "select"} : [op |-> op, ids |-> S, key |-> k] \in Requests
  BY DEF Requests
-------------------------------------------------------------------------------
(* The operations, up to the execution.                                      *)

\* One binding is made current.
LEMMA Rebinds ==
    ASSUME NEW bs \in [Kinds -> Bindings], NEW im \in Images, \A k \in Kinds : Fresh(bs[k], im),
           NEW j \in Kinds
    PROVE  /\ [bs EXCEPT ![j] = bind(bs[j], im)] \in [Kinds -> Bindings]
           /\ \A k \in Kinds : Fresh([bs EXCEPT ![j] = bind(bs[j], im)][k], im)
           /\ Current([bs EXCEPT ![j] = bind(bs[j], im)][j], im)
  BY BindFacts

LEMMA AskStep ==
    ASSUME IInv, NEW r \in Requests, Asks(r), NEW im \in Images, image' = im,
           NEW bs \in [Kinds -> Bindings], binding' = bs, \A k \in Kinds : Fresh(bs[k], im),
           idImage' \in Ids \cup {0}, idBound' \in BOOLEAN,
           r.op = "persist" => Current(bs["insert"], im),
           r.op = "update" => Current(bs["update"], im),
           r.op = "select" => Current(bs["select"], im),
           r.op \in {"persist", "update"} => im.value = r.object /\ idBound',
           r.op = "update" => idImage' = r.id,
           r.op \in {"erase", "select"} /\ r.key => idBound' /\ r.ids = {idImage'}
    PROVE  IInv'
  <1>1. /\ pc = "idle" /\ pc' = "execute" /\ request' = r
        /\ table' = table /\ truncated' = truncated /\ selected' = selected /\ outcome' = "none"
    BY DEF Asks
  <1>2. Types'
    BY <1>1, RequestFacts DEF IInv, Types, Outcomes
  <1>3. BindingInv'
    BY <1>1 DEF BindingInv
  <1>4. RequestInv'
    BY <1>1 DEF RequestInv, IInv
  <1>5. RowInv'
    BY <1>1 DEF RowInv
  <1> QED BY <1>2, <1>3, <1>4, <1>5 DEF IInv

LEMMA PersistStep == ASSUME IInv, NEW o \in Objects, persist(o) PROVE IInv'
  <1> DEFINE r == [op |-> "persist", object |-> o]
             im == init_image(image, o)
             bs == [binding EXCEPT !["insert"] = bind(binding["insert"], im)]
  <1>1. r \in Requests /\ r.op = "persist" /\ r.object = o /\ Asks(r)
    BY RequestsMade DEF persist
  <1>2. im \in Images /\ im.value = o /\ \A k \in Kinds : Fresh(binding[k], im)
    BY InitImage DEF IInv, Types, BindingInv
  <1>3. image' = im /\ binding' = bs /\ idBound' = TRUE /\ idImage' = idImage
    BY DEF persist
  <1>4. idImage' \in Ids \cup {0}
    BY <1>3 DEF IInv, Types
  <1> HIDE DEF im
  <1>5. bs \in [Kinds -> Bindings] /\ (\A k \in Kinds : Fresh(bs[k], im)) /\ Current(bs["insert"], im)
    BY <1>2, Rebinds DEF IInv, Types, Kinds
  <1> HIDE DEF bs, r
  <1> QED BY <1>1, <1>2, <1>3, <1>4, <1>5, AskStep

LEMMA UpdateStep == ASSUME IInv, NEW id \in Ids, NEW o \in Objects, update(id, o) PROVE IInv'
  <1> DEFINE r == [op |-> "update", id |-> id, object |-> o]
             im == init_image(image, o)
             bs == [binding EXCEPT !["update"] = bind(binding["update"], im)]
  <1>1. r \in Requests /\ r.op = "update" /\ r.object = o /\ r.id = id /\ Asks(r)
    BY RequestsMade DEF update
  <1>2. im \in Images /\ im.value = o /\ \A k \in Kinds : Fresh(binding[k], im)
    BY InitImage DEF IInv, Types, BindingInv
  <1>3. image' = im /\ binding' = bs /\ idBound' = TRUE /\ idImage' = id
    BY DEF update
  <1> HIDE DEF im
  <1>4. bs \in [Kinds -> Bindings] /\ (\A k \in Kinds : Fresh(bs[k], im)) /\ Current(bs["update"], im)
    BY <1>2, Rebinds DEF IInv, Types, Kinds
  <1> HIDE DEF bs, r
  <1> QED BY <1>1, <1>2, <1>3, <1>4, AskStep

LEMMA FindStep ==
    ASSUME IInv, NEW S \in SUBSET Ids, NEW key \in BOOLEAN, Asks([op |-> "select", ids |-> S, key |-> key]),
           image' = image, binding' = [binding EXCEPT !["select"] = bind(binding["select"], image)],
           idImage' \in Ids \cup {0}, idBound' \in BOOLEAN, key => idBound' /\ S = {idImage'}
    PROVE  IInv'
  <1> DEFINE r == [op |-> "select", ids |-> S, key |-> key]
             bs == [binding EXCEPT !["select"] = bind(binding["select"], image)]
  <1>1. r \in Requests /\ r.op = "select" /\ r.ids = S /\ r.key = key /\ Asks(r)
    BY RequestsMade
  <1>2. image \in Images /\ binding' = bs
    BY DEF IInv, Types
  <1>3. bs \in [Kinds -> Bindings] /\ (\A k \in Kinds : Fresh(bs[k], image)) /\ Current(bs["select"], image)
    BY <1>2, Rebinds DEF IInv, Types, Kinds, BindingInv
  <1> HIDE DEF bs, r
  <1> QED BY <1>1, <1>2, <1>3, AskStep

LEMMA EraseStep ==
    ASSUME IInv, NEW S \in SUBSET Ids, NEW key \in BOOLEAN, Asks([op |-> "erase", ids |-> S, key |-> key]),
           UNCHANGED <<image, binding>>,
           idImage' \in Ids \cup {0}, idBound' \in BOOLEAN, key => idBound' /\ S = {idImage'}
    PROVE  IInv'
  <1> DEFINE r == [op |-> "erase", ids |-> S, key |-> key]
  <1>1. r \in Requests /\ r.op = "erase" /\ r.ids = S /\ r.key = key /\ Asks(r)
    BY RequestsMade
  <1>2. image \in Images /\ binding \in [Kinds -> Bindings] /\ \A k \in Kinds : Fresh(binding[k], image)
    BY DEF IInv, Types, BindingInv
  <1> HIDE DEF r
  <1> QED BY <1>1, <1>2, AskStep
-------------------------------------------------------------------------------
(* The execution.                                                            *)

\* The request ends.
LEMMA ReturnStep ==
    ASSUME IInv, NEW how \in Outcomes, Returns(how), pc # "refetch", NEW f \in Tables, table' = f,
           UNCHANGED <<image, idBound, binding, truncated>>, idImage' \in Ids \cup {0}
    PROVE  IInv'
  <1>1. pc' = "idle" /\ request' = None /\ selected' = NoRows /\ outcome' \in Outcomes
    BY DEF Returns
  <1>2. Types'
    BY <1>1, TableChanges DEF IInv, Types
  <1>3. BindingInv'
    BY <1>1, RequestFacts DEF IInv, BindingInv
  <1>4. RequestInv' /\ RowInv'
    BY <1>1 DEF RequestInv, RowInv
  <1> QED BY <1>2, <1>3, <1>4 DEF IInv

\* INSERT and UPDATE read the object they were given.
LEMMA Stored ==
    ASSUME IInv, pc = "execute", NEW k \in Kinds,
           (request.op = "persist" /\ k = "insert") \/ (request.op = "update" /\ k = "update")
    PROVE  Parameters(binding[k]) = request.object /\ request.object \in Objects
  <1>1. request.object \in Objects
    BY RequestFacts DEF IInv, Types
  <1>2. image.value = request.object
    BY DEF IInv, RequestInv
  <1>3. Current(binding[k], image) /\ Fresh(binding[k], image)
    BY DEF IInv, BindingInv
  <1>4. binding[k].buffer = image.cap
    BY <1>3 DEF Current, Fresh
  <1>5. Parameters(binding[k]) = [c \in Columns |-> request.object[c]]
    BY <1>2, <1>4 DEF Parameters
  <1> QED BY <1>1, <1>5, ObjectFacts

\* The rows that a statement means are those of its request.
LEMMA WhereFacts ==
    ASSUME IInv, pc = "execute"
    PROVE  /\ request.op = "update" => Where(request) = {request.id}
           /\ request.op \in {"erase", "select"} => Where(request) = request.ids
  <1>1. request \in Requests
    BY DEF IInv, Types
  <1> QED BY <1>1, RequestFacts DEF IInv, RequestInv, Where

LEMMA InsertStep == ASSUME IInv, ExecuteInsert PROVE IInv'
  <1>1. pc = "execute" /\ request.op = "persist" /\ Returns("done") /\ UNCHANGED <<image, idBound, binding, truncated>>
    BY DEF ExecuteInsert
  <1>2. PICK id \in Ids \ DOMAIN table :
           /\ table' = With(table, id, Parameters(binding["insert"]))
           /\ idImage' = IF idBound THEN id ELSE idImage
    BY DEF ExecuteInsert
  <1>3. Parameters(binding["insert"]) \in Objects
    <2>1. "insert" \in Kinds
      BY DEF Kinds
    <2>2. Parameters(binding["insert"]) = request.object /\ request.object \in Objects
      BY <1>1, <2>1, Stored
    <2> QED BY <2>2, Zenon
  <1>4. With(table, id, Parameters(binding["insert"])) \in Tables /\ idImage' \in Ids \cup {0}
    BY <1>2, <1>3, TableChanges DEF IInv, Types
  <1> QED BY <1>1, <1>2, <1>4, ReturnStep DEF Outcomes

LEMMA UpdateExecutes == ASSUME IInv, ExecuteUpdate PROVE IInv'
  <1>1. /\ pc = "execute" /\ request.op = "update" /\ \E how \in Outcomes : Returns(how)
        /\ UNCHANGED <<image, idImage, idBound, binding, truncated>>
    BY DEF ExecuteUpdate, image_vars, Outcomes
  <1>2. Parameters(binding["update"]) \in Objects
    <2>1. "update" \in Kinds
      BY DEF Kinds
    <2>2. Parameters(binding["update"]) = request.object /\ request.object \in Objects
      BY <1>1, <2>1, Stored
    <2> QED BY <2>2, Zenon
  <1>3. DOMAIN table \subseteq Ids /\ \A i \in DOMAIN table : table[i] \in Objects
    BY TableFacts DEF IInv, Types
  <1>4. table' = [i \in DOMAIN table |-> IF i \in Where(request) THEN Parameters(binding["update"]) ELSE table[i]]
    BY DEF ExecuteUpdate
  <1>5. table' \in [DOMAIN table -> Objects]
    BY <1>2, <1>3, <1>4
  <1>6. table' \in Tables /\ idImage' \in Ids \cup {0}
    BY <1>1, <1>3, <1>5, TableMade DEF IInv, Types
  <1> QED BY <1>1, <1>6, ReturnStep

LEMMA DeleteStep == ASSUME IInv, ExecuteDelete PROVE IInv'
  <1>1. /\ pc = "execute" /\ (\E how \in Outcomes : Returns(how))
        /\ UNCHANGED <<image, idImage, idBound, binding, truncated>>
        /\ table' = Without(table, Where(request))
    BY DEF ExecuteDelete, image_vars, Outcomes
  <1>2. Without(table, Where(request)) \in Tables /\ idImage' \in Ids \cup {0}
    BY <1>1, TableChanges DEF IInv, Types
  <1> QED BY <1>1, <1>2, ReturnStep

LEMMA EndStep == ASSUME IInv, ExecuteThrows \/ ResultEnds PROVE IInv'
  <1>1. /\ pc # "refetch" /\ \E how \in Outcomes : Returns(how)
        /\ UNCHANGED <<table, image, idImage, idBound, binding, truncated>>
    BY DEF ExecuteThrows, ResultEnds, image_vars, Outcomes
  <1>2. table \in Tables /\ idImage' \in Ids \cup {0}
    BY <1>1 DEF IInv, Types
  <1> QED BY <1>1, <1>2, ReturnStep

LEMMA SelectStep == ASSUME IInv, ExecuteSelect PROVE IInv'
  <1>1. /\ pc = "execute" /\ request.op = "select" /\ pc' = "fetch"
        /\ selected' = [i \in DOMAIN table \cap Where(request) |-> table[i]]
        /\ UNCHANGED <<table, image, idImage, idBound, binding, truncated, request, outcome>>
    BY DEF ExecuteSelect, image_vars
  <1>2. DOMAIN table \subseteq Ids /\ \A i \in DOMAIN table : table[i] \in Objects
    BY TableFacts DEF IInv, Types
  <1>3. selected' \in [DOMAIN table \cap Where(request) -> Objects]
    BY <1>1, <1>2
  <1>4. selected' \in Tables
    BY <1>2, <1>3, TableMade
  <1>5. Types'
    BY <1>1, <1>4 DEF IInv, Types
  <1>6. BindingInv' /\ RequestInv' /\ RowInv'
    BY <1>1 DEF IInv, BindingInv, RequestInv, RowInv
  <1> QED BY <1>5, <1>6 DEF IInv

LEMMA OthersWriteStep == ASSUME IInv, OthersWrite PROVE IInv'
  <1>1. UNCHANGED <<image, idImage, idBound, binding, truncated, request, pc, selected, outcome>>
    BY DEF OthersWrite, image_vars
  <1>2. table' \in Tables
    BY TableChanges DEF OthersWrite, IInv, Types
  <1>3. Types'
    BY <1>1, <1>2 DEF IInv, Types
  <1>4. BindingInv' /\ RequestInv' /\ RowInv'
    BY <1>1 DEF IInv, BindingInv, RequestInv, RowInv
  <1> QED BY <1>3, <1>4 DEF IInv
-------------------------------------------------------------------------------
(* Loading a row.                                                            *)

LEMMA FetchStep == ASSUME IInv, NEW id \in Ids, fetch(id) PROVE IInv'
  <1> DEFINE row == selected[id]
             b == binding["select"]
             t == TooLong(b, row)
             im == Copied(image, b, row, Columns \ t)
             new == [im EXCEPT !.id = id, !.size = [c \in Columns |-> Size[row[c]]]]
  <1>1. /\ pc = "fetch" /\ id \in DOMAIN selected /\ truncated' = t /\ image' = new
        /\ pc' = (IF t = {} THEN "init" ELSE "refetch")
        /\ UNCHANGED <<table, idImage, idBound, binding, request, selected, outcome>>
    BY DEF fetch
  <1>2. row \in Objects /\ image \in Images /\ b \in Bindings /\ Fresh(b, image)
    BY <1>1, TableFacts DEF IInv, Types, BindingInv, Kinds
  <1>3. Current(b, image) /\ request.op = "select"
    BY <1>1 DEF IInv, BindingInv, RequestInv
  <1>4. t \subseteq Columns /\ (Columns \ t) \in SUBSET Columns
    BY DEF TooLong
  <1> HIDE DEF row, b, t, im
  <1>5. /\ im \in Images /\ im.cap = image.cap /\ im.version = image.version
        /\ \A c \in Columns : im.value[c] = IF c \in Columns \ t THEN row[c] ELSE image.value[c]
    BY <1>2, <1>3, <1>4, CopiedFacts DEF im
  <1>6. [c \in Columns |-> Size[row[c]]] \in [Columns -> Nat]
    BY <1>2, ObjectFacts
  <1>7. /\ new \in Images /\ new.id = id /\ new.size = [c \in Columns |-> Size[row[c]]]
        /\ new.cap = image.cap /\ new.version = image.version /\ new.value = im.value
    BY <1>5, <1>6 DEF Images
  <1> HIDE DEF new
  <1>8. Types'
    BY <1>1, <1>4, <1>7 DEF IInv, Types
  <1>9. BindingInv'
    <2>1. \A k \in Kinds : Fresh(binding[k], new)
      BY <1>7 DEF IInv, BindingInv, Fresh
    <2>2. Current(binding["select"], new)
      BY <1>3, <1>7 DEF Current, b
    <2> QED BY <1>1, <1>3, <2>1, <2>2 DEF BindingInv
  <1>10. RequestInv'
    BY <1>1, <1>3 DEF RequestInv
  <1>11. RowInv'
    <2>1. \A c \in Columns \ t : new.value[c] = row[c]
      BY <1>5, <1>7
    <2> QED BY <1>1, <1>7, <2>1 DEF RowInv, row
  <1> QED BY <1>8, <1>9, <1>10, <1>11 DEF IInv

LEMMA RefetchStep == ASSUME IInv, refetch PROVE IInv'
  <1> DEFINE row == selected[image.id]
             grown == grow(image, truncated)
             b == bind(binding["select"], grown)
             new == Copied(grown, b, row, truncated)
  <1>1. /\ pc = "refetch" /\ pc' = "init" /\ image' = new /\ binding' = [binding EXCEPT !["select"] = b]
        /\ truncated' = {} /\ UNCHANGED <<table, idImage, idBound, request, selected, outcome>>
    BY DEF refetch
  <1>2. /\ image.id \in DOMAIN selected /\ image.size = [c \in Columns |-> Size[row[c]]]
        /\ \A c \in Columns \ truncated : image.value[c] = row[c]
    BY <1>1 DEF IInv, RowInv
  <1>3. row \in Objects /\ image \in Images /\ truncated \in SUBSET Columns /\ truncated # {} /\ request.op = "select"
    BY <1>1, <1>2, TableFacts DEF IInv, Types, RequestInv
  <1> HIDE DEF row, grown, b, new
  <1>4. /\ grown \in Images /\ grown.id = image.id /\ grown.size = image.size
        /\ \A c \in Columns \ truncated : grown.value[c] = image.value[c]
        /\ \A k \in Kinds : Fresh(binding[k], grown)
    BY <1>3, GrowFacts DEF grown, IInv, Types, BindingInv
  <1>5. b \in Bindings /\ Fresh(b, grown) /\ Current(b, grown)
    BY <1>4, BindFacts DEF b, IInv, Types, Kinds
  <1>6. /\ new \in Images /\ new.id = image.id /\ new.size = image.size
        /\ new.cap = grown.cap /\ new.version = grown.version
        /\ \A c \in Columns : new.value[c] = IF c \in truncated THEN row[c] ELSE grown.value[c]
    BY <1>3, <1>4, <1>5, CopiedFacts DEF new
  <1>7. binding' \in [Kinds -> Bindings] /\ binding'["select"] = b
        /\ \A k \in Kinds \ {"select"} : binding'[k] = binding[k]
    BY <1>1, <1>5 DEF IInv, Types, Kinds
  <1>8. Types'
    BY <1>1, <1>6, <1>7 DEF IInv, Types
  <1>9. BindingInv'
    <2>1. \A k \in Kinds : Fresh(binding'[k], new)
      BY <1>4, <1>5, <1>6, <1>7 DEF Fresh
    <2>2. Current(binding'["select"], new)
      BY <1>5, <1>6, <1>7 DEF Current
    <2> QED BY <1>1, <1>3, <2>1, <2>2 DEF BindingInv
  <1>10. RequestInv'
    BY <1>1, <1>3 DEF RequestInv
  <1>11. RowInv'
    <2>1. \A c \in Columns : new.value[c] = row[c]
      BY <1>2, <1>4, <1>6
    <2> QED BY <1>1, <1>2, <1>6, <2>1 DEF RowInv, row
  <1> QED BY <1>8, <1>9, <1>10, <1>11 DEF IInv

LEMMA InitLoadedStep == ASSUME IInv, init_loaded PROVE IInv'
  <1>1. /\ pc = "init" /\ pc' = "fetch" /\ selected' = Without(selected, {image.id})
        /\ UNCHANGED <<table, image, idImage, idBound, binding, truncated, request, outcome>>
    BY DEF init_loaded, image_vars
  <1>2. selected' \in Tables
    BY <1>1, TableChanges DEF IInv, Types
  <1>3. Types'
    BY <1>1, <1>2 DEF IInv, Types
  <1>4. BindingInv' /\ RequestInv' /\ RowInv'
    BY <1>1 DEF IInv, BindingInv, RequestInv, RowInv
  <1> QED BY <1>3, <1>4 DEF IInv
-------------------------------------------------------------------------------
LEMMA InvInit == Init => IInv
  <1> SUFFICES ASSUME Init PROVE IInv
    OBVIOUS
  <1>1. image \in Images /\ image.version = 0 /\ image.value = [c \in Columns |-> Garbage]
    <2>1. [c \in Columns |-> Capacity] \in [Columns -> Nat]
      BY StatementsAssumption
    <2> QED BY <2>1 DEF Init, Images
  <1>2. /\ binding \in [Kinds -> Bindings]
        /\ \A k \in Kinds : binding[k].version = 0 /\ binding[k].bound = FALSE
    BY DEF Init, Kinds, Bindings
  <1>3. \A k \in Kinds : Fresh(binding[k], image)
    BY <1>1, <1>2 DEF Fresh
  <1>4. table \in Tables /\ selected \in Tables
    BY TableChanges DEF Init, Tables
  <1>5. Types
    BY <1>1, <1>2, <1>4 DEF Init, Types, Outcomes
  <1>6. BindingInv
    BY <1>3, RequestFacts DEF Init, BindingInv
  <1>7. RequestInv /\ RowInv
    BY DEF Init, RequestInv, RowInv
  <1> QED BY <1>5, <1>6, <1>7 DEF IInv

LEMMA InvStep == IInv /\ [Next]_vars => IInv'
  <1> SUFFICES ASSUME IInv, [Next]_vars PROVE IInv'
    OBVIOUS
  <1>1. CASE UNCHANGED vars
    BY <1>1 DEF vars, image_vars, IInv, Types, BindingInv, RequestInv, RowInv
  <1>2. ASSUME NEW id \in Ids, erase(id) \/ find(id) PROVE IInv'
    <2>1. {id} \in SUBSET Ids /\ idImage' = id /\ idBound' = TRUE
      BY <1>2 DEF erase, find
    <2>2. CASE erase(id)
      BY <2>1, <2>2, EraseStep DEF erase
    <2>3. CASE find(id)
      BY <2>1, <2>3, FindStep DEF find
    <2> QED BY <1>2, <2>2, <2>3
  <1>3. ASSUME NEW S \in SUBSET Ids, query(S) \/ erase_query(S) PROVE IInv'
    <2>1. idImage' \in Ids \cup {0} /\ idBound' \in BOOLEAN
      BY <1>3 DEF query, erase_query, IInv, Types
    <2>2. CASE query(S)
      BY <2>1, <2>2, FindStep DEF query
    <2>3. CASE erase_query(S)
      BY <2>1, <2>3, EraseStep DEF erase_query
    <2> QED BY <1>3, <2>2, <2>3
  <1> QED BY <1>1, <1>2, <1>3, PersistStep, UpdateStep, FetchStep, InsertStep, UpdateExecutes, DeleteStep,
             SelectStep, EndStep, RefetchStep, InitLoadedStep, OthersWriteStep DEF Next

LEMMA Invariant == Spec => []IInv
  BY InvInit, InvStep, PTL DEF Spec

\* Types hold in every reachable state: no binding is of a version the image has
\* not had, and no garbage is stored.
THEOREM TypeCorrect == Spec => []TypeOK
  <1>1. IInv => TypeOK
    <2> SUFFICES ASSUME IInv PROVE TypeOK
      OBVIOUS
    <2>1. /\ DOMAIN table \subseteq Ids /\ \A i \in DOMAIN table : table[i] \in Objects
          /\ DOMAIN selected \subseteq Ids
      BY TableFacts DEF IInv, Types
    <2>2. /\ image.value \in [Columns -> Values \cup {Garbage}]
          /\ image.size \in [Columns -> Nat] /\ image.cap \in [Columns -> Nat] /\ image.version \in Nat
      BY DEF IInv, Types, Images
    <2>3. \A k \in DOMAIN binding : binding[k].version <= image.version
      BY DEF IInv, Types, BindingInv, Fresh
    <2> QED BY <2>1, <2>2, <2>3 DEF IInv, Types, TypeOK, Outcomes
  <1> QED BY <1>1, Invariant, PTL

\* A statement of User-odb.cxx runs, and a row is fetched, only through pointers to
\* the buffers the image has now, whichever statement or fetch has reallocated
\* them: comparing versions is enough.
THEOREM PointersAreValid == Spec => []NoStalePointer
  <1>1. IInv => NoStalePointer
    <2> SUFFICES ASSUME IInv, request.op \in {"persist", "update", "select"}
                 PROVE  Statement(request).buffer = image.cap
      BY DEF NoStalePointer
    <2>1. \E k \in Kinds : Statement(request) = binding[k] /\ Current(binding[k], image)
      BY DEF IInv, BindingInv, Statement, Kinds
    <2> QED BY <2>1 DEF IInv, BindingInv, Fresh, Current
  <1> QED BY <1>1, Invariant, PTL
-------------------------------------------------------------------------------
(* The refinement: every step of the persistence code is a step of           *)
(* UserTable, or none.                                                       *)

\* The request's SELECT has run.
Executed == pc \in {"fetch", "refetch", "init"}

\* The two modules mean the same by a table without or with a row.
LEMMA SameTables ==
    /\ Abstract!NoRows = NoRows /\ Abstract!None = None /\ Abstract!Nothing = Nothing
    /\ \A f, S : Abstract!Without(f, S) = Without(f, S)
    /\ \A f, id, o : Abstract!With(f, id, o) = With(f, id, o)
  BY DEF Abstract!NoRows, NoRows, Abstract!None, None, Abstract!Nothing, Nothing,
         Abstract!Without, Without, Abstract!With, With

LEMMA AskRefines == ASSUME IInv, NEW r \in Requests, Asks(r) PROVE Abstract!Next
  <1>1. request = None /\ request' = r /\ delivered' = Nothing /\ UNCHANGED <<table, selected>>
    BY DEF Asks, IInv, Types
  <1>2. ~Executed /\ ~Executed' /\ outcome' = "none"
    BY DEF Asks, Executed
  <1>3. Abstract!Ask
    BY <1>1, <1>2, SameTables DEF Abstract!Ask, Executed
  <1> QED BY <1>3 DEF Abstract!Next

LEMMA EndRefines == ASSUME NEW how, Returns(how) PROVE Abstract!Ends(how)
  BY SameTables DEF Returns, Abstract!Ends

LEMMA FailRefines == ASSUME IInv, ExecuteThrows PROVE Abstract!Next
  <1>1. pc = "execute" /\ Returns("failed") /\ UNCHANGED <<table, delivered>>
    BY DEF ExecuteThrows
  <1>2. request # None
    BY <1>1 DEF IInv, Types
  <1>3. Abstract!Fail
    BY <1>1, <1>2, EndRefines, SameTables DEF Abstract!Fail
  <1> QED BY <1>3 DEF Abstract!Next

LEMMA SelectEndRefines == ASSUME IInv, ResultEnds PROVE Abstract!Next
  <1>1. /\ pc = "fetch" /\ Returns("done") /\ UNCHANGED <<table, delivered>>
        /\ selected = NoRows \/ (~request.key /\ delivered # Nothing)
    BY DEF ResultEnds
  <1>2. request.op = "select"
    BY <1>1 DEF IInv, RequestInv
  <1>3. Abstract!SelectEnds
    BY <1>1, <1>2, EndRefines, SameTables DEF Abstract!SelectEnds
  <1> QED BY <1>3 DEF Abstract!Next

\* INSERT stores the object, and the object gets the id of its row.
LEMMA InsertRefines == ASSUME IInv, ExecuteInsert PROVE Abstract!Next
  <1>1. pc = "execute" /\ request.op = "persist" /\ Returns("done")
    BY DEF ExecuteInsert
  <1>2. idBound = TRUE
    BY <1>1 DEF IInv, RequestInv, Types
  <1>3. PICK id \in Ids \ DOMAIN table :
           /\ table' = With(table, id, Parameters(binding["insert"]))
           /\ idImage' = (IF idBound THEN id ELSE idImage)
           /\ delivered' = [id |-> idImage', object |-> request.object]
    BY DEF ExecuteInsert
  <1>4. Parameters(binding["insert"]) = request.object
    <2>1. "insert" \in Kinds
      BY DEF Kinds
    <2> QED BY <1>1, <2>1, Stored
  <1>5. table' = With(table, id, request.object) /\ delivered' = [id |-> id, object |-> request.object]
    BY <1>2, <1>3, <1>4, Zenon
  <1>6. Abstract!Insert
    BY <1>1, <1>5, EndRefines, SameTables DEF Abstract!Insert
  <1> QED BY <1>6 DEF Abstract!Next

\* UPDATE replaces the row of the object's id, or there is none.
LEMMA UpdateRefines == ASSUME IInv, ExecuteUpdate PROVE Abstract!Next
  <1>1. /\ pc = "execute" /\ request.op = "update" /\ delivered' = delivered
        /\ Returns(IF Affects(request) THEN "done" ELSE "object_not_persistent")
        /\ table' = [i \in DOMAIN table |->
                        IF i \in Where(request) THEN Parameters(binding["update"]) ELSE table[i]]
    BY DEF ExecuteUpdate
  <1>2. Where(request) = {request.id}
    BY <1>1, WhereFacts
  <1>3. Parameters(binding["update"]) = request.object
    <2>1. "update" \in Kinds
      BY DEF Kinds
    <2> QED BY <1>1, <2>1, Stored
  <1>4. Affects(request) <=> request.id \in DOMAIN table
    BY <1>2 DEF Affects
  <1>5. table' = [i \in DOMAIN table |-> IF i = request.id THEN request.object ELSE table[i]]
    BY <1>1, <1>2, <1>3
  <1>6. CASE request.id \in DOMAIN table
    <2>1. DOMAIN table \cup {request.id} = DOMAIN table
      BY <1>6
    <2>2. table' = With(table, request.id, request.object)
      BY <1>5, <2>1 DEF With
    <2>3. Returns("done")
      BY <1>1, <1>4, <1>6
    <2>4. Abstract!Replace
      BY <1>1, <1>6, <2>2, <2>3, EndRefines, SameTables DEF Abstract!Replace
    <2> QED BY <2>4 DEF Abstract!Next
  <1>7. CASE request.id \notin DOMAIN table
    <2>1. table' = [i \in DOMAIN table |-> table[i]]
      BY <1>5, <1>7
    <2>2. table' = table
      BY <2>1, TableFacts DEF IInv, Types
    <2>3. Returns("object_not_persistent")
      BY <1>1, <1>4, <1>7
    <2>4. Abstract!NotPersistent
      BY <1>1, <1>7, <2>2, <2>3, EndRefines DEF Abstract!NotPersistent
    <2> QED BY <2>4 DEF Abstract!Next
  <1> QED BY <1>6, <1>7

LEMMA DeleteRefines == ASSUME IInv, ExecuteDelete PROVE Abstract!Next
  <1>1. /\ pc = "execute" /\ request.op = "erase" /\ delivered' = delivered
        /\ Returns(IF request.key => Affects(request) THEN "done" ELSE "object_not_persistent")
        /\ table' = Without(table, Where(request))
    BY DEF ExecuteDelete
  <1>2. /\ Where(request) = request.ids
        /\ Affects(request) <=> request.ids \cap DOMAIN table # {}
        /\ request.key => request.ids = {idImage}
    BY <1>1, WhereFacts DEF Affects, IInv, RequestInv
  <1>3. CASE request.key => Affects(request)
    <2>1. request.key => request.ids \subseteq DOMAIN table
      BY <1>2, <1>3
    <2>2. Returns("done")
      BY <1>1, <1>3
    <2>3. Abstract!Remove
      BY <1>1, <1>2, <2>1, <2>2, EndRefines, SameTables DEF Abstract!Remove
    <2> QED BY <2>3 DEF Abstract!Next
  <1>4. CASE ~(request.key => Affects(request))
    <2>1. request.key /\ request.ids \cap DOMAIN table = {} /\ Returns("object_not_persistent")
      BY <1>1, <1>2, <1>4
    <2>2. table' = table
      <3>1. DOMAIN table \ request.ids = DOMAIN table
        BY <2>1
      <3>2. table = [i \in DOMAIN table |-> table[i]]
        BY TableFacts DEF IInv, Types
      <3> QED BY <1>1, <1>2, <3>1, <3>2 DEF Without
    <2>3. Abstract!NotPersistent
      BY <1>1, <2>1, <2>2, EndRefines DEF Abstract!NotPersistent
    <2> QED BY <2>3 DEF Abstract!Next
  <1> QED BY <1>3, <1>4

LEMMA SelectRefines == ASSUME IInv, ExecuteSelect PROVE Abstract!Next
  <1>1. /\ pc = "execute" /\ request.op = "select" /\ UNCHANGED <<table, request, delivered, outcome>>
        /\ pc' = "fetch" /\ selected' = [i \in DOMAIN table \cap Where(request) |-> table[i]]
    BY DEF ExecuteSelect
  <1>2. Where(request) = request.ids
    BY <1>1, WhereFacts
  <1>3. DOMAIN table \subseteq Ids
    BY TableFacts DEF IInv, Types
  <1>4. DOMAIN table \cap request.ids = DOMAIN table \ (Ids \ request.ids)
    BY <1>3
  <1>5. selected' = Without(table, Ids \ request.ids)
    BY <1>1, <1>2, <1>4 DEF Without
  <1>6. Abstract!Select
    BY <1>1, <1>5, SameTables DEF Abstract!Select
  <1> QED BY <1>6 DEF Abstract!Next

\* The object that is handed out is the row that was fetched, truncated or not.
LEMMA LoadedRefines == ASSUME IInv, init_loaded PROVE Abstract!Next
  <1> DEFINE row == selected[image.id]
  <1>1. /\ pc = "init" /\ delivered' = [id |-> image.id, object |-> init_object]
        /\ selected' = Without(selected, {image.id}) /\ UNCHANGED <<table, request, outcome>>
        /\ pc' = "fetch"
    BY DEF init_loaded
  <1>2. truncated = {}
    BY <1>1 DEF IInv, Types
  <1>3. /\ image.id \in DOMAIN selected /\ image.size = [c \in Columns |-> Size[row[c]]]
        /\ \A c \in Columns : image.value[c] = row[c]
    BY <1>1, <1>2 DEF IInv, RowInv
  <1>4. row \in Objects
    BY <1>3, TableFacts DEF IInv, Types
  <1> HIDE DEF row
  <1>5. init_object = [c \in Columns |-> row[c]]
    BY <1>3, <1>4, ObjectFacts DEF init_object
  <1>6. init_object = row
    BY <1>4, <1>5, ObjectFacts
  <1>7. /\ image.id \in DOMAIN selected /\ delivered' = [id |-> image.id, object |-> selected[image.id]]
        /\ selected' = Abstract!Without(selected, {image.id})
    BY <1>1, <1>3, <1>6, SameTables DEF row
  <1>8. Executed' = Executed
    BY <1>1 DEF Executed
  <1>9. Abstract!Deliver
    BY <1>1, <1>7, <1>8, Zenon DEF Abstract!Deliver, Executed
  <1> QED BY <1>9 DEF Abstract!Next

\* Whatever texts the connection has seen before, User-odb.cxx stores exactly the
\* object it was given under its id, and delivers exactly the rows that its
\* statement has selected.
THEOREM UserTableImplemented == Spec => ImplementsUserTable
  <1>1. Init => Abstract!Init
    BY SameTables DEF Init, Abstract!Init
  <1>2. IInv /\ [Next]_vars => [Abstract!Next]_(Abstract!vars)
    <2> SUFFICES ASSUME IInv, [Next]_vars PROVE [Abstract!Next]_(Abstract!vars)
      OBVIOUS
    <2>1. CASE UNCHANGED vars
      BY <2>1 DEF vars, Abstract!vars
    <2>2. ASSUME NEW o \in Objects, persist(o) \/ \E id \in Ids : update(id, o) PROVE Abstract!Next
      BY <2>2, RequestsMade, AskRefines DEF persist, update
    <2>3. ASSUME NEW id \in Ids, erase(id) \/ find(id) PROVE Abstract!Next
      <3>1. {id} \in SUBSET Ids
        OBVIOUS
      <3>2. \E op \in {"erase", "select"} : Asks([op |-> op, ids |-> {id}, key |-> TRUE])
        BY <2>3 DEF erase, find
      <3> QED BY <3>1, <3>2, RequestsMade, AskRefines
    <2>4. ASSUME NEW S \in SUBSET Ids, query(S) \/ erase_query(S) PROVE Abstract!Next
      <3>1. \E op \in {"erase", "select"} : Asks([op |-> op, ids |-> S, key |-> FALSE])
        BY <2>4 DEF query, erase_query
      <3> QED BY <3>1, RequestsMade, AskRefines
    <2>5. ASSUME NEW id \in Ids, fetch(id) PROVE UNCHANGED Abstract!vars
      BY <2>5 DEF fetch, Abstract!vars
    <2>6. refetch => UNCHANGED Abstract!vars
      BY DEF refetch, Abstract!vars
    <2>7. ExecuteThrows \/ ResultEnds => Abstract!Next
      BY FailRefines, SelectEndRefines
    <2>8. OthersWrite => Abstract!Next
      BY SameTables DEF OthersWrite, Abstract!OthersWrite, Abstract!Next
    <2> QED BY <2>1, <2>2, <2>3, <2>4, <2>5, <2>6, <2>7, <2>8, InsertRefines, UpdateRefines, DeleteRefines,
               SelectRefines, LoadedRefines DEF Next
  <1> QED BY <1>1, <1>2, Invariant, PTL DEF Spec, ImplementsUserTable, Abstract!Spec
===============================================================================
