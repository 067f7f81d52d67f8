------------------------------ MODULE SqlJson ------------------------------
(***************************************************************************)
(* JSON documents (SQL/EX json.go). A JSON text is the tree it stands for: an *)
(* object is a function from names, an array a sequence, each in a record     *)
(* that tells them apart. A path is the sequence of its parts: a name and, if *)
(* it reads as a number, that number.                                        *)
(***************************************************************************)
EXTENDS SqlValues

JObj(f) == [j |-> "object", obj |-> f]
JArr(s) == [j |-> "array", arr |-> s]
JVal(v) == [j |-> "scalar", val |-> v]
JNone == [j |-> "none"]
JError == [j |-> "error"]
NoNumber == -1
Part(name, num) == [name |-> name, num |-> num]

RECURSIVE JsonExtract(_, _)
JsonExtract(v, path) ==
  IF path = <<>> THEN v
  ELSE LET p == Head(path)
       IN CASE v.j = "object" /\ p.name \in DOMAIN v.obj -> JsonExtract(v.obj[p.name], Tail(path))
            [] v.j = "array" /\ p.num \in 0..(Len(v.arr) - 1) -> JsonExtract(v.arr[p.num + 1], Tail(path))
            [] OTHER -> JNone
\* A child that is made whether or not there is one.
ChildAnew(v, p) == JObj([n \in {} |-> JNone])
\* What is under a name, or a new object that is put there.
Child(v, p) ==
  IF v.j = "object" /\ p.name \in DOMAIN v.obj THEN v.obj[p.name] ELSE JObj([n \in {} |-> JNone])
\* jsonSetPath: objects missing on the way are made, array elements are not; one error anywhere
\* is the result.
RECURSIVE JsonSet(_, _, _)
JsonSet(v, path, x) ==
  LET p == Head(path)
      inner(w) == IF Len(path) = 1 THEN x ELSE JsonSet(w, Tail(path), x)
  IN CASE v.j = "object" ->
            LET new == inner(Child(v, p)) IN IF new = JError THEN JError ELSE JObj((p.name :> new) @@ v.obj)
       [] v.j = "array" /\ p.num \in 0..(Len(v.arr) - 1) ->
            IF inner(v.arr[p.num + 1]) = JError THEN JError
            ELSE JArr([v.arr EXCEPT ![p.num + 1] = inner(@)])
       [] OTHER -> JError
JsonType(v) ==
  CASE v.j \in {"array", "object"} -> v.j
    [] v.j = "scalar" -> (CASE v.val.t = "bool" -> "integer" [] v.val.t = "str" -> "text"
                            [] v.val.t = "null" -> "null" [] OTHER -> "real")
=============================================================================
