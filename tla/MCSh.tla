-------------------------------- MODULE MCSh --------------------------------
(* Sh on small instances: every line of up to three tokens, and some longer
   ones. *)
EXTENDS Sh

Tokens == {"a", "<", ">", "+", "|", "&", ";", "(", ")"}
Short == UNION {[1 .. i -> Tokens] : i \in 0 .. 3}

Long ==
  {<<"a", "|", "a", "|", "a">>, <<"a", "|", "a", "&", ";", "a">>,
   <<"(", "a", "|", "a", ")", "|", "a">>, <<"a", ";", "a", "|", "a">>,
   <<"(", "a", "&", ")", "|", "a">>, <<"(", "a", ";", "a", ")", "|", "a">>,
   <<"a", "<", "a", ">", "a", "|", "a", "+", "a">>, <<"(", "a", "|", "a", ")", "<", "a", ">", "a">>,
   <<">", "a", "a", "<", "a", "&", "&", ";", ";">>, <<"a", ";", "(", "a", "a", ")">>}

\* What is typed to a shell that may be started with less than three descriptors.
FewOpen ==
  {<< <<"a", "|", "a">> >>, << <<"(", "a", ";", "a", ")", "|", "a">> >>,
   << <<"a", "<", "a", ">", "a", "|", "a", "+", "a">> >>,
   << <<"a", "&">>, <<"cd">>, <<"a", "|", "a">> >>}

SomeScripts ==
  {[lines |-> <<l>>, open |-> {0, 1, 2}] : l \in Short \cup Long}
    \cup {[lines |-> s, open |-> o] : s \in FewOpen, o \in SUBSET {0, 1, 2}}
=============================================================================
