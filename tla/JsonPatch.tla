----------------------------- MODULE JsonPatch -----------------------------
(***************************************************************************)
(* patch_inplace, diff and merge_patch of basic_json.  A patch is a        *)
(* sequence of operations; an operation has those of the members op, path, *)
(* value and from that its JSON object has, the last three as values.  The *)
(* check for this shape, error 104, is left out, and of two errors of one  *)
(* operation which is thrown first is not told apart.                      *)
(***************************************************************************)
EXTENDS JsonPointer

ParentPointer(tokens) == SubSeq(tokens, 1, Len(tokens) - 1)
Back(tokens) == tokens[Len(tokens)]

\* operator==: signed and unsigned numbers are compared as signed ones.  The
\* comparison with doubles is left out.
RECURSIVE EqualJson(_, _)
EqualJson(j, k) ==
    CASE TypeOf(j) = "array" /\ TypeOf(k) = "array" ->
             /\ Len(Content(j)) = Len(Content(k))
             /\ \A i \in DOMAIN Content(j) : EqualJson(Content(j)[i], Content(k)[i])
      [] TypeOf(j) = "object" /\ TypeOf(k) = "object" ->
             /\ Len(Content(j)) = Len(Content(k))
             /\ \A i \in DOMAIN Content(j) : /\ Content(j)[i][1] = Content(k)[i][1]
                                             /\ EqualJson(Content(j)[i][2], Content(k)[i][2])
      [] TypeOf(j) \in {"integer", "unsigned"} /\ TypeOf(k) \in {"integer", "unsigned"} ->
             Content(j) = Content(k)
      [] OTHER -> j = k

-----------------------------------------------------------------------------
(* patch_inplace.  An operation returns the document it leaves, and what   *)
(* it threw: some change the document before they throw.                   *)

Applied(j) == [document |-> j, thrown |-> <<>>]
Throws(j, failure) == [document |-> j, thrown |-> <<failure.error>>]

\* get_value.
MemberOfOperation(o, member, string_type) ==
    IF member \notin DOMAIN o \/ (string_type /\ TypeOf(o[member]) # "string")
    THEN Error("parse_error.105") ELSE Returned(o[member])

PointerOf(o, member) ==
    LET TakeText(j) == Split(Content(j)) IN Given(MemberOfOperation(o, member, TRUE), TakeText)

\* The document with v for the element that the tokens, which exist, point to.
RECURSIVE Replaced(_, _, _)
Replaced(j, tokens, v) ==
    CASE tokens = <<>> -> v
      [] tokens # <<>> /\ TypeOf(j) = "object" ->
             SetKey(j, Head(tokens), Replaced(MemberOf(j, Head(tokens)), Tail(tokens), v))
      [] OTHER -> LET i == ArrayIndex(Head(tokens)).value
                  IN SetIndex(j, i, Replaced(Content(j)[i + 1], Tail(tokens), v))

\* operation_add, operation_remove: what becomes of the parent.
AddTo(parent, token, v) ==
    LET At(i) == IF i > Len(Content(parent)) THEN Error("out_of_range.401")
                 ELSE Returned(Insert(parent, i, v))
    IN CASE TypeOf(parent) = "null" -> Returned(Json("object", <<<<token, v>>>>))
         [] TypeOf(parent) = "object" -> Returned(SetKey(parent, token, v))
         [] TypeOf(parent) = "array" ->
                IF token = Dash THEN Returned(PushBack(parent, v)) ELSE Given(ArrayIndex(token), At)
         [] OTHER -> Error("assertion")

RemoveFrom(parent, token) ==
    LET At(i) == EraseIndex(parent, i)
    IN CASE TypeOf(parent) = "object" ->
                IF HasKey(parent, token) THEN Returned(EraseKey(parent, token))
                ELSE Error("out_of_range.403")
         [] TypeOf(parent) = "array" -> Given(ArrayIndex(token), At)
         [] OTHER -> Returned(parent)

Changed(j, tokens, Change(_, _)) ==
    LET parent == GetChecked(j, ParentPointer(tokens))
        changed == Change(parent.value, Back(tokens))
    IN CASE tokens = <<>> -> Error("out_of_range.405")
         [] tokens # <<>> /\ Failed(parent) -> parent
         [] OTHER -> IF Failed(changed) THEN changed
                     ELSE Returned(Replaced(j, ParentPointer(tokens), changed.value))

OperationAdd(j, tokens, v) ==
    LET Add(parent, token) == AddTo(parent, token, v)
    IN IF tokens = <<>> THEN Returned(v) ELSE Changed(j, tokens, Add)

OperationRemove(j, tokens) == Changed(j, tokens, RemoveFrom)

\* What the operation that only changes the document at the end leaves.
Outcome(j, r) == IF Failed(r) THEN Throws(j, r) ELSE Applied(r.value)

Add(j, o, tokens) ==
    LET Put(v) == OperationAdd(j, tokens, v)
    IN Outcome(j, Given(MemberOfOperation(o, "value", FALSE), Put))

RemovePointer(j, tokens) == Outcome(j, OperationRemove(j, tokens))

Replace(j, o, tokens) ==
    LET Put(v) == Returned(Replaced(j, tokens, v))
        There(old) == Given(MemberOfOperation(o, "value", FALSE), Put)
    IN Outcome(j, Given(GetChecked(j, tokens), There))

\* The element is removed before it is added: when that fails it is gone.
Move(j, o, tokens) ==
    LET from == PointerOf(o, "from")
        v == GetChecked(j, from.value)
        without == OperationRemove(j, from.value)
    IN CASE Failed(from) -> Throws(j, from)
         [] ~Failed(from) /\ Failed(v) -> Throws(j, v)
         [] ~Failed(from) /\ ~Failed(v) /\ Failed(without) -> Throws(j, without)
         [] OTHER -> Outcome(without.value, OperationAdd(without.value, tokens, v.value))

Copy(j, o, tokens) ==
    LET Put(v) == OperationAdd(j, tokens, v)
        There(from) == Given(GetChecked(j, from), Put)
    IN Outcome(j, Given(PointerOf(o, "from"), There))

\* Only an out_of_range of at() is caught.
Test(j, o, tokens) ==
    LET found == GetChecked(j, tokens)
        v == MemberOfOperation(o, "value", FALSE)
    IN CASE Failed(found) /\ found.error \in {"parse_error.106", "parse_error.109"} -> Throws(j, found)
         [] Failed(found) /\ found.error \notin {"parse_error.106", "parse_error.109"} ->
                Throws(j, Error("other_error.501"))
         [] ~Failed(found) /\ Failed(v) -> Throws(j, v)
         [] OTHER -> IF EqualJson(found.value, v.value) THEN Applied(j)
                     ELSE Throws(j, Error("other_error.501"))

ApplyAt(j, o, path) ==
    IF Failed(path) THEN Throws(j, path)
    ELSE CASE o.op = "add" -> Add(j, o, path.value)
           [] o.op = "remove" -> RemovePointer(j, path.value)
           [] o.op = "replace" -> Replace(j, o, path.value)
           [] o.op = "move" -> Move(j, o, path.value)
           [] o.op = "copy" -> Copy(j, o, path.value)
           [] o.op = "test" -> Test(j, o, path.value)
           [] OTHER -> Throws(j, Error("parse_error.105"))

ApplyOperation(j, o) ==
    IF "op" \in DOMAIN o THEN ApplyAt(j, o, PointerOf(o, "path"))
    ELSE Throws(j, Error("parse_error.105"))

\* Up to the first operation that throws.
RECURSIVE PatchFrom(_, _)
PatchFrom(done, patch) ==
    IF patch = <<>> \/ done.thrown # <<>> THEN done
    ELSE PatchFrom(ApplyOperation(done.document, Head(patch)), Tail(patch))
PatchInplace(j, patch) == PatchFrom(Applied(j), patch)

-----------------------------------------------------------------------------
(* diff and merge_patch.                                                   *)

StringJson(s) == Json("string", s)
RemovalAt(path) == [op |-> "remove", path |-> StringJson(path)]
AdditionAt(path, v) == [op |-> "add", path |-> StringJson(path), value |-> v]
ReplacementAt(path, v) == [op |-> "replace", path |-> StringJson(path), value |-> v]

RECURSIVE Diff(_, _, _)

\* A bug to catch: the removals from the first on.
DiffArrayForward(source, target, path) ==
    LET n == Len(source)
        m == Len(target)
        common == IF n < m THEN n ELSE m
        Index(i) == path \o <<Slash>> \o DecimalText(EightBytes(i - 1))
    IN Concatenated([i \in 1 .. common |-> Diff(source[i], target[i], Index(i))])
       \o [i \in 1 .. n - common |-> RemovalAt(Index(common + i))]
       \o [i \in 1 .. m - common |-> AdditionAt(path \o <<Slash>> \o Dash, target[common + i])]

\* The common elements, the removal of the others from the last on, or the
\* addition of those that are missing.
DiffArray(source, target, path) ==
    LET n == Len(source)
        m == Len(target)
        common == IF n < m THEN n ELSE m
        Index(i) == path \o <<Slash>> \o DecimalText(EightBytes(i - 1))
    IN Concatenated([i \in 1 .. common |-> Diff(source[i], target[i], Index(i))])
       \o [i \in 1 .. n - common |-> RemovalAt(Index(n + 1 - i))]
       \o [i \in 1 .. m - common |-> AdditionAt(path \o <<Slash>> \o Dash, target[common + i])]

DiffObject(source, target, path) ==
    LET At(key) == path \o <<Slash>> \o EscapeToken(key)
        kept == [i \in DOMAIN Content(source) |->
                    LET key == Content(source)[i][1] IN
                    IF HasKey(target, key) THEN Diff(Content(source)[i][2], MemberOf(target, key), At(key))
                    ELSE <<RemovalAt(At(key))>>]
        new == SelectSeq(Content(target), LAMBDA m : ~HasKey(source, m[1]))
    IN Concatenated(kept) \o [i \in DOMAIN new |-> AdditionAt(At(new[i][1]), new[i][2])]

Diff(source, target, path) ==
    CASE EqualJson(source, target) -> <<>>
      [] ~EqualJson(source, target) /\ TypeOf(source) = "array" /\ TypeOf(target) = "array" ->
             DiffArray(Content(source), Content(target), path)
      [] ~EqualJson(source, target) /\ TypeOf(source) = "object" /\ TypeOf(target) = "object" ->
             DiffObject(source, target, path)
      [] OTHER -> <<ReplacementAt(path, target)>>

RECURSIVE MergePatch(_, _), MergeMembers(_, _)
MergePatch(j, apply_patch) ==
    IF TypeOf(apply_patch) # "object" THEN apply_patch
    ELSE MergeMembers(IF TypeOf(j) = "object" THEN j ELSE Json("object", <<>>), Content(apply_patch))

\* A bug to catch: a null is stored instead of erasing the member.
MergeMembersKeeping(j, members) ==
    LET key == Head(members)[1]
    IN IF members = <<>> THEN j
       ELSE MergeMembers(SetKey(j, key, MergePatch(MemberOrNull(j, key), Head(members)[2])), Tail(members))

MergeMembers(j, members) ==
    LET key == Head(members)[1]
        v == Head(members)[2]
    IN CASE members = <<>> -> j
         [] members # <<>> /\ TypeOf(v) = "null" -> MergeMembers(EraseKey(j, key), Tail(members))
         [] OTHER -> MergeMembers(SetKey(j, key, MergePatch(MemberOrNull(j, key), v)), Tail(members))
=============================================================================
