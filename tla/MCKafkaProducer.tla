-------------------------- MODULE MCKafkaProducer --------------------------
(* One SendSync whose ctx ends, one whose ctx never does, one SendAsync    *)
(* with a callback, two calls of Close.                                    *)
EXTENDS KafkaProducer

CONSTANTS s1, s2, a1, c1, c2
MCSync == {s1, s2}
MCAsync == {a1}
MCBounded == {s1}
MCCloser == {c1, c2}
=============================================================================
