---------------------------- MODULE MCSmokeGate ----------------------------
(***************************************************************************)
(* Gates of two and three updates of two tokens, on corpora that just hold *)
(* the training tokens and the window, are a token short, or are so short  *)
(* that training would wrap; an interval that is no whole number of        *)
(* updates, and one as long as the training.                               *)
(***************************************************************************)
EXTENDS SmokeGate

Config(tokens, interval, length, mismatch, improves) ==
    [tokens |-> tokens, interval |-> interval, batch |-> 1, seq |-> 2,
     length |-> length, mismatch |-> mismatch, improves |-> improves]

MCConfigs ==
    { Config(6, 4, 8, FALSE, TRUE), Config(6, 4, 8, TRUE, TRUE),
      Config(4, 2, 9, FALSE, FALSE),
      Config(4, 2, 5, FALSE, TRUE), Config(6, 2, 3, FALSE, TRUE),
      Config(6, 3, 8, FALSE, TRUE), Config(4, 4, 8, FALSE, TRUE) }
=============================================================================
