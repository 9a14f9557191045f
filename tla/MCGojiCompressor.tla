------------------------- MODULE MCGojiCompressor -------------------------
(* GojiCompressor on a small instance: values of at most six bytes. *)
EXTENDS GojiCompressor

\* Two pieces; a JSON value of text and binary pieces, too long for MaxParallelism pieces of
\* ChunkSize and with a remainder when it is divided; one without, whose first bytes look
\* worth compressing and that is not; and a short one that is a marker.
MCInputs == {<<"a", "a", "x", "x">>, <<"{", "a", "x", "x", "}">>,
             <<"a", "a", "x", "{", "b", "}">>, <<"01">>}

Modes(mixed, parallel, streaming, caching) ==
  [ChunkSize |-> 2, MaxParallelism |-> 2, pool |-> 8,
   EnableMixedMode |-> mixed, EnableParallel |-> parallel, EnableStreaming |-> streaming,
   EnableCache |-> caching, CacheSize |-> 1, algorithm |-> "none"]

\* The default: every mode is on.  The parallel mode, with a channel that never fills and
\* with one that does; the streaming mode; no mode; one algorithm for everything.
MCConfigs ==
  {Modes(TRUE, TRUE, TRUE, TRUE),
   Modes(FALSE, TRUE, TRUE, FALSE),
   [Modes(FALSE, TRUE, FALSE, FALSE) EXCEPT !.pool = 1],
   Modes(FALSE, FALSE, TRUE, FALSE),
   Modes(FALSE, FALSE, FALSE, TRUE),
   [Modes(FALSE, FALSE, FALSE, TRUE) EXCEPT !.algorithm = "gzip", !.CacheSize = 2]}
===========================================================================
