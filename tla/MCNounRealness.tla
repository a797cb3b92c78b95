---------------------------- MODULE MCNounRealness ----------------------------
(* One session that refers to two nouns and later to one of them again.       *)
EXTENDS NounRealness

MCTalk ==
  [s \in Session |-> << << <<"n", "operate">>, <<"m", "reject">> >>, << <<"n", "operate">> >> >>]
MCWindows == <<3, 1>>
=============================================================================
