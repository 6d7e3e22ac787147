----------------------------- MODULE MCJsonStore -----------------------------
(* Three mutations: an audit record, a plain one and one that may throw.    *)
EXTENDS JsonStore

CONSTANTS audit, plain, faulty
=============================================================================
