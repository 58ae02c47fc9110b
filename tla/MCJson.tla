------------------------------- MODULE MCJson -------------------------------
(* The uses of json.hpp in one run: texts on the wire, a text that a         *)
(* callback filters, a conversion to and from a binary format, or a document *)
(* that is patched.  One of them is chosen in the initial state; the others  *)
(* stay where they begin.                                                    *)
EXTENDS MCWire, MCConv, MCDocument, JsonFilter

\* No conversion: stage says what goes on instead.
NotConverting(use) ==
    /\ form = CHOOSE f \in Form : TRUE
    /\ value = NullValue /\ bytes = <<>> /\ damage = "none" /\ outcome = None /\ stage = use

JInit ==
    /\ WInit /\ DInit /\ FilterInit
    /\ \/ NotConverting("wire")
       \/ receiver = "menu" /\ (CInit \/ \E use \in {"document", "filter"} : NotConverting(use))

JNext ==
    \/ stage = "wire" /\ WNext /\ UNCHANGED <<convVars, document, filterVars>>
    \/ stage = "document" /\ DNext /\ UNCHANGED <<wvars, convVars, filterVars>>
    \/ stage = "filter" /\ FilterNext /\ UNCHANGED <<wvars, convVars, document>>
    \/ stage \notin {"wire", "document", "filter"} /\ CNext /\ UNCHANGED <<wvars, document, filterVars>>

JSpec == JInit /\ [][JNext]_<<wvars, convVars, document, filterVars>>

FilterNames == {<<97>>, <<98>>}
=============================================================================
