---------------------------- MODULE MCIngestion ----------------------------
(***************************************************************************)
(* Small instances of Ingestion for TLC.                                   *)
(*                                                                         *)
(* point:  an envelope with a source time in the future when the clock     *)
(*         starts, which becomes usable later                              *)
(* spelt:  the same envelope under another spelling of the topic           *)
(* plain:  JSON without times                                              *)
(* broken: JSON by its content type only                                   *)
(* nul:    text that PostgreSQL does not take                              *)
(* alien:  a topic that is not authorized                                  *)
(***************************************************************************)
EXTENDS Ingestion, TLC

CONSTANTS point, spelt, plain, broken, nul, alien, a1, a2, s1

MCStreamOf(m) == IF m = alien THEN NoStream ELSE s1

MCTopicOf(m) == IF m = spelt THEN "a//b" ELSE "a/b"

MCContentOf(m) == IF m = spelt THEN point ELSE m

MCFormOf(m) ==
    CASE m \in {point, spelt} -> "point"
      [] m = plain -> "json"
      [] m = nul -> "unstorable"
      [] OTHER -> "text"

MCJson(m) == "application/json"

\* The MQTT adapter states no content type.
MCMqtt(m) == "none"

MCSourceTimeOf(m) == IF m \in {point, spelt} THEN 4 ELSE NoTime

MCBrokerTimeOf(m) == NoTime

AdapterSymmetry == Permutations(Adapters)
=============================================================================
