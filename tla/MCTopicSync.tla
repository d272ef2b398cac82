---------------------------- MODULE MCTopicSync -----------------------------
(* An empty database and one with a device; a second listener may be started. *)
EXTENDS TopicSync

CONSTANTS t1, t2, r1, r2

Tables == {{}, {t1}}
=============================================================================
