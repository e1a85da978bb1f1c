---------------------------- MODULE CJsonGrammar ----------------------------
(***************************************************************************)
(* What a JSON text is, by the grammar of RFC 8259 over the lexemes, and   *)
(* that cJSON_Parse accepts it.                                            *)
(***************************************************************************)
EXTENDS CJsonParser

RECURSIVE IsValue(_), IsElements(_, _)
IsMember(s) ==
  \E i \in DOMAIN s :
    /\ s[i] = ":" /\ Trimmed(SubSeq(s, 1, i - 1)) = <<"string">>
    /\ IsValue(Trimmed(SubSeq(s, i + 1, Len(s))))
IsElement(kind, s) == IF kind = "array" THEN IsValue(Trimmed(s)) ELSE IsMember(s)
IsElements(kind, s) ==
  \/ IsElement(kind, s)
  \/ \E i \in DOMAIN s :
       /\ s[i] = "," /\ IsElement(kind, SubSeq(s, 1, i - 1))
       /\ IsElements(kind, SubSeq(s, i + 1, Len(s)))
IsList(kind, s) ==
  /\ Len(s) > 1 /\ <<s[1], s[Len(s)]>> = (IF kind = "array" THEN <<"[", "]">> ELSE <<"{", "}">>)
  /\ LET inside == SubSeq(s, 2, Len(s) - 1) IN Blank(inside) \/ IsElements(kind, inside)
IsValue(s) ==
  \/ Len(s) = 1 /\ s[1] \in Literals \cup {"string"}
  \/ IsList("array", s)
  \/ IsList("object", s)

-----------------------------------------------------------------------------
\* cJSON_Parse accepts exactly the texts that begin with a JSON value within the
\* nesting limit, and stops right behind it.
AcceptsExactlyJson ==
  /\ parsing = "parsed" => IsValue(Before(offset)) /\ WithinLimit(Before(offset))
  /\ Rejected /\ ~outOfMemory =>
       ~\E o \in DOMAIN text : IsValue(Before(o)) /\ WithinLimit(Before(o))
=============================================================================
