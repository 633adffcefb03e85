--------------------------- MODULE MCScenarioRuns ---------------------------
(* Constant values for model-checking ScenarioRuns. *)
EXTENDS ScenarioRuns, TLC

MCStartConfig == [seed |-> 0, start |-> 0]

MCServiceDefault == <<>>

NewDocument(name, seed, seeds, timeline, rule) ==
  [name |-> name, config |-> [seed |-> seed, start |-> 0], seeds |-> seeds,
   timeline |-> timeline, rule |-> rule]

Rule(effect) == [effect |-> effect, actions |-> {"put", "bad"}]

\* With seed 1 the second draw of a run fires; the third does not.
MCFires == {<<1, 2>>}

MCRefused == {"bad"}

Slow    == NewDocument("slow", 1, TRUE, <<"put", "put">>, Rule("latency"))
Broken  == NewDocument("broken", 1, TRUE, <<"put", "put">>, Rule("http_error"))
Refused == NewDocument("refused", 1, TRUE, <<"put", "bad">>, Nil)
Unseeded == NewDocument("unseeded", 1, FALSE, <<>>, Rule("latency"))
Short   == NewDocument("short", 2, TRUE, <<>>, Nil)

AllKinds == {Slow, Broken, Refused, Unseeded}
ShortOnly == {Short}
SlowOnly == {Slow}

ReqSymmetry == Permutations(Req)
=============================================================================
