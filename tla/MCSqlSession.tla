---------------------------- MODULE MCSqlSession ----------------------------
(***************************************************************************)
(* An instance of SqlSession for TLC.                                      *)
(***************************************************************************)
EXTENDS SqlSession, SequencesExt

\* A text that is not SQL, every command of at most two statements, and longer
\* ones with a refusal or a failure in the middle.
MCCommands ==
    {<<"syntax">>, <<"done", "bad", "done">>, <<"rows", "error", "rows">>}
        \cup SeqOf(Kinds \ {"syntax"}, 2)
=============================================================================
