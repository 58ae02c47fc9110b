---------------------------- MODULE JsonDocument ----------------------------
(***************************************************************************)
(* One JSON document and what patch_inplace and merge_patch make of it,    *)
(* operation by operation; what diff, flatten, unflatten and a pointer say *)
(* of it is checked of every document that can come about.                 *)
(***************************************************************************)
EXTENDS JsonPatch, FiniteSets

CONSTANTS
    Start,      \* the documents to begin with
    Operation,  \* the operations of patches
    Other,      \* the documents to compare with, and to merge
    Place,      \* the texts of pointers
    Thing,      \* the values that are assigned
    MaxNodes    \* bound: the values in a document, other than a first one, that is patched

ASSUME DocumentAssumption == MaxNodes \in Nat

VARIABLE document   \* <<>>: none yet


RECURSIVE NodeCount(_)
NodeCount(j) ==
    LET Sum(counts) == LET sum[i \in 0 .. Len(counts)] == IF i = 0 THEN 0 ELSE sum[i - 1] + counts[i]
                       IN sum[Len(counts)]
    IN 1 + CASE TypeOf(j) = "array" -> Sum([i \in DOMAIN Content(j) |-> NodeCount(Content(j)[i])])
             [] TypeOf(j) = "object" -> Sum([i \in DOMAIN Content(j) |-> NodeCount(Content(j)[i][2])])
             [] OTHER -> 0

DInit == document = <<>>

Load == document = <<>> /\ document' \in Start

\* An operation that throws may have changed the document all the same.
Patch == \E o \in Operation : document' = ApplyOperation(document, o).document

Merge == \E patch \in Other : document' = MergePatch(document, patch)

DNext ==
    \/ Load
    \/ /\ document # <<>>
       /\ document \in Start \/ NodeCount(document) <= MaxNodes
       /\ Patch \/ Merge

DSpec == DInit /\ [][DNext]_document

-----------------------------------------------------------------------------
\* The patch that diff writes for two documents makes the one of the other,
\* whatever their keys and the lengths of their arrays are: a removal must not
\* move what is removed next, and a key must not be read as another (diff and
\* patch_inplace, json.hpp:24737-25173).
PatchRestores ==
    document # <<>> =>
    \A other \in Other \cup {document} :
        /\ PatchInplace(document, Diff(document, other, <<>>)).thrown = <<>>
        /\ EqualJson(PatchInplace(document, Diff(document, other, <<>>)).document, other)
        /\ EqualJson(PatchInplace(other, Diff(other, document, <<>>)).document, document)

\* An object is taken for an array when its first path begins with a 0.
RECURSIVE Emptied(_), TakenForArray(_)
Emptied(j) ==
    CASE TypeOf(j) \in {"array", "object"} /\ Content(j) = <<>> -> NullValue
      [] TypeOf(j) = "array" /\ Content(j) # <<>> ->
             Json("array", [i \in DOMAIN Content(j) |-> Emptied(Content(j)[i])])
      [] TypeOf(j) = "object" /\ Content(j) # <<>> ->
             Json("object", [i \in DOMAIN Content(j) |-> <<Content(j)[i][1], Emptied(Content(j)[i][2])>>])
      [] OTHER -> j

TakenForArray(j) ==
    CASE TypeOf(j) = "object" /\ Content(j) # <<>> ->
             \/ Split(Content(Flatten(j))[1][1]).value[1] = <<48>>
             \/ \E i \in DOMAIN Content(j) : TakenForArray(Content(j)[i][2])
      [] TypeOf(j) = "array" -> \E i \in DOMAIN Content(j) : TakenForArray(Content(j)[i])
      [] OTHER -> FALSE

\* What flatten names, unflatten builds again, though it comes in the order of
\* the texts of the pointers, 10 before 2, and tells an array from an object by
\* the first of them alone; empty containers become null (json_pointer::flatten,
\* get_and_create and unflatten, json.hpp:14764-14836 and 15234-15338).
UnflattenKeeps ==
    document # <<>> /\ ~TakenForArray(document) => Unflatten(Flatten(document)) = Returned(Emptied(document))

\* The four walks along a pointer agree: contains and at on what there is, but
\* for an empty token at an array, at which both throw; operator[] and at on
\* what was assigned (json.hpp:14857-15150).
PointersAgree ==
    document # <<>> =>
    \A text \in Place :
        LET split == Split(text)
            tokens == split.value
            found == GetChecked(document, tokens)
            contains == ContainsPointer(document, tokens)
        IN ~Failed(split) =>
               /\ PointerText(tokens) = text
               /\ Failed(contains) => Failed(found) /\ found.error = contains.error
               /\ ~Failed(contains) => (contains.value <=> ~Failed(found))
               /\ \A v \in Thing :
                      LET assigned == Assigned(document, tokens, v) IN
                      /\ ~Failed(found) => assigned = Returned(Replaced(document, tokens, v))
                      /\ ~Failed(assigned) /\ Dash \notin {tokens[i] : i \in DOMAIN tokens}
                             => GetChecked(assigned.value, tokens) = Returned(v)

\* Merging a second time changes nothing, and leaves no null that the patch
\* asks to remove (merge_patch, json.hpp:25186-25210).
MergeIsFinal ==
    document # <<>> =>
    \A patch \in Other :
        LET merged == MergePatch(document, patch)
        IN /\ MergePatch(merged, patch) = merged
           /\ TypeOf(patch) = "object" =>
                  \A i \in DOMAIN Content(patch) :
                      HasKey(merged, Content(patch)[i][1]) <=> TypeOf(Content(patch)[i][2]) # "null"
=============================================================================
