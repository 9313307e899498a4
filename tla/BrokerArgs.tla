------------------------------ MODULE BrokerArgs ------------------------------
(***************************************************************************)
(* The global arguments of the broker: pkg/broker/cmd/globals.go.  What    *)
(* Validate refuses, and which source of configuration it settles on.      *)
(*                                                                         *)
(* An argument is reduced to whether it is given, a period to what it      *)
(* parses to.  Operators with an underscore are plausible slips in the     *)
(* definition that follows them.                                           *)
(***************************************************************************)
EXTENDS FiniteSets

\* periods are the two of the status manager: "invalid" when one of them does
\* not parse, and otherwise the sign of the check period, "other" for zero or
\* negative (that of the force period has no effect).  The default of path is
\* the file the broker image has.
Args == [path : {"", "default", "other"}, obsPath : BOOLEAN,
         polling : {"invalid", "zero", "positive", "negative"},
         inline : BOOLEAN, obsInline : BOOLEAN,
         namespace : BOOLEAN, secretName : BOOLEAN, secretKey : BOOLEAN,
         obsMap : BOOLEAN, statusMap : BOOLEAN,
         periods : {"invalid", "positive", "other"}]

\* The case of Validate's switch.
Case_FileFirst(a) ==
    IF a.path # "" THEN "file"
    ELSE IF a.secretName \/ a.secretKey THEN "secret"
    ELSE IF a.inline THEN "inline" ELSE "none"
Case(a) ==
    IF a.secretName \/ a.secretKey THEN "secret"
    ELSE IF a.inline THEN "inline"
    ELSE IF a.path # "" THEN "file" ELSE "none"

ConfigMethod(a) ==
    IF Case(a) # "file" THEN Case(a)
    ELSE IF a.polling = "zero" THEN "watcher" ELSE "poller"

SecretRefused(a) ==
    ~(a.secretName /\ a.secretKey) \/ a.path = "other" \/ a.obsPath \/ a.inline \/ a.obsInline

FileRefused(a) ==
    \/ a.obsMap \/ a.inline \/ a.obsInline
    \/ a.namespace /\ ~a.statusMap

NamespaceMissing(a) == ~a.namespace /\ (a.statusMap \/ a.secretName \/ a.secretKey)

\* Validate returns an error, and the method is unknown.
Refused(a) ==
    \/ a.polling = "invalid" \/ a.periods = "invalid"
    \/ NamespaceMissing(a)
    \/ Case(a) = "secret" /\ SecretRefused(a)
    \/ Case(a) = "inline" /\ a.path = "other"
    \/ Case(a) = "file" /\ FileRefused(a)
    \/ Case(a) = "none"

\* Reference: the complete sources among the arguments, where the default
\* path counts as one only when nothing else is given.
Sources(a) ==
    LET Given == {s \in {"secret", "inline", "file"} :
                    CASE s = "secret" -> a.secretName /\ a.secretKey
                      [] s = "inline" -> a.inline
                      [] s = "file"   -> a.path = "other"}
    IN  IF Given = {} /\ a.path = "default" THEN {"file"} ELSE Given

-----------------------------------------------------------------------------
(* NewInstance. *)

ObservabilityGiven(a) == {o \in {"obsPath", "obsInline", "obsMap"} : a[o]}

\* What NewInstance makes to follow the configuration.
Created(m, a) ==
    CASE m = "watcher" -> {"bcw"} \cup (IF a.obsPath THEN {"ocw"} ELSE {})
      [] m = "poller"  -> {"bcp"} \cup (IF a.obsPath THEN {"ocp"} ELSE {})
      [] m = "secret"  -> {"km"}
      [] m = "inline"  -> {"static"}
=============================================================================
