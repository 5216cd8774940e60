------------------------------ MODULE Markers ------------------------------
(***************************************************************************)
(* The events an agent publishes and what they do to the Redis hash        *)
(* "pending", shared by the modules that read or write that hash.          *)
(*                                                                         *)
(* The hash maps a path to the kind of its last event; no reader of the    *)
(* hash uses the kind, so "pending" is modelled by the set of its keys,    *)
(* the paths that carry a marker "this file has to be looked at".          *)
(***************************************************************************)
EXTENDS Naturals, Sequences

CONSTANT Path                   \* The paths under the watched directory

(***************************************************************************)
(* A message as json.loads and event.get see it.  "invalid" stands for     *)
(* every value the parser rejects: broken JSON, an unknown event type, a   *)
(* rename without both paths or a modification without a path.             *)
(* json_escape lets overlong forms and surrogates through, which Python    *)
(* does not: a path with an overlong form makes json.loads raise           *)
(* ("undecodable"), and one with a surrogate is parsed but makes the       *)
(* encoding of the Redis command raise ("unencodable").                    *)
(***************************************************************************)
EventMessage ==
         [event : {"mtime_change", "delete"}, path : Path]
    \cup [event : {"rename"}, old_path : Path, new_path : Path]
    \cup [event : {"invalid", "undecodable", "unencodable"}]

\* The message adds a command to the batch: deletes and rejects do not.
Queued(m) == m.event \in {"mtime_change", "rename", "unencodable"}

\* The message tells of a file that changed or moved, so that its marker has to
\* reach Redis, whether or not the consumer can read the path.
Reports(m) == Queued(m) \/ m.event = "undecodable"

\* HSET pending x
Sets(m, x) == \/ m.event = "mtime_change" /\ m.path = x
              \/ m.event = "rename" /\ m.new_path = x

\* HDEL pending x, not followed by an HSET of x in the same rename
Clears(m, x) == /\ m.event = "rename"
                /\ m.old_path = x
                /\ m.new_path # x

(***************************************************************************)
(* The keys of "pending" after the commands of the messages ms have run in *)
(* order on a hash with keys S: x is a key if the last command on x, if    *)
(* there is one, was an HSET.                                              *)
(***************************************************************************)
Execute(S, ms) ==
         {x \in Path : \E k \in DOMAIN ms :
                          /\ Sets(ms[k], x)
                          /\ \A l \in DOMAIN ms : l > k => ~Clears(ms[l], x)}
    \cup {x \in S : \A k \in DOMAIN ms : ~Clears(ms[k], x)}

=============================================================================
