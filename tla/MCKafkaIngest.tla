--------------------------- MODULE MCKafkaIngest ---------------------------
(* KafkaIngest on small instances. *)
EXTENDS KafkaIngest

=============================================================================
