---------------------------- MODULE MCLinuxMain ----------------------------
(***************************************************************************)
(* Instances of LinuxMain for TLC: every sub command with its complete     *)
(* options, with one of them missing, with both kinds of ID and with       *)
(* --help.  The things are those of MCThingIf.                             *)
(***************************************************************************)
EXTENDS LinuxMain

CONSTANTS t1, t2, long

MCIdLen == [t \in ThingId |-> IF t = long THEN 100 ELSE 36]

Complete ==
  {[subc |-> "onboard-with-token", opts |-> {"thing-id", "access-token"}]}
    \cup {[subc |-> s, opts |-> {id, "password", "firmware-version", "thing-type"}] :
            s \in {"get", "update"}, id \in {"vendor-thing-id", "thing-id"}}
    \cup {[subc |-> "onboard", opts |-> {id, "password"}] :
            id \in {"vendor-thing-id", "thing-id"}}

MCCommandLines ==
  {[c EXCEPT !.opts = c.opts \ lack] :
     c \in Complete, lack \in {{}} \cup {{o} : o \in Option}}
    \cup {[c EXCEPT !.opts = c.opts \cup {o}] :
            c \in Complete, o \in {"help", "thing-id", "vendor-thing-id"}}
    \cup {[subc |-> s, opts |-> {}] : s \in SubCommand}
=============================================================================
