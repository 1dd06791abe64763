--------------------------- MODULE ControlChannel ---------------------------
(***************************************************************************)
(* What the control plane promises one client (SPEC.md 9, 9.4), with no    *)
(* queue, pump, callback or radio: a request is accepted or ignored; an    *)
(* accepted one is owed exactly one response; at most one request that     *)
(* took effect is owed at a time; and only a client that went away or      *)
(* stopped listening can lose its response.                                *)
(***************************************************************************)
EXTENDS Naturals, FiniteSets

CONSTANTS Requests, Room

VARIABLES owed, applied, answered, abandoned

channelVars == <<owed, applied, answered, abandoned>>

Init == owed = {} /\ applied = {} /\ answered = {} /\ abandoned = {}

\* The request takes effect, or is refused as busy; either way it is owed.
Accept(r, takesEffect) ==
    /\ r \notin owed \cup answered
    /\ Cardinality(owed) < Room
    /\ takesEffect => applied = {}
    /\ owed' = owed \cup {r}
    /\ applied' = IF takesEffect THEN {r} ELSE applied
    /\ UNCHANGED <<answered, abandoned>>

Answer(r) ==
    /\ r \in owed
    /\ owed' = owed \ {r}
    /\ applied' = applied \ {r}
    /\ answered' = answered \cup {r}
    /\ UNCHANGED abandoned

Abandon(S) ==
    /\ abandoned' = abandoned \cup S
    /\ UNCHANGED <<owed, applied, answered>>

Forget(S) ==
    /\ S \subseteq owed \cap abandoned
    /\ owed' = owed \ S
    /\ applied' = applied \ S
    /\ UNCHANGED <<answered, abandoned>>

Next ==
    \/ \E r \in Requests : \E effect \in BOOLEAN : Accept(r, effect)
    \/ \E r \in Requests : Answer(r)
    \/ \E S \in SUBSET Requests : Abandon(S) \/ Forget(S)

Spec == Init /\ [][Next]_channelVars
=============================================================================
