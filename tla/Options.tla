------------------------------- MODULE Options ------------------------------
(***************************************************************************)
(* options_t: what setsockopt accepts for each option and getsockopt gives *)
(* back.  Each option has its field, but NET_IPV4ONLY, the negation of     *)
(* NET_IPV6, and the three options of the PLAIN mechanism, which also set  *)
(* `mechanism' and `as_server'.  The options of CURVE are not compiled     *)
(* without libsodium and are refused like unknown ones.                    *)
(*                                                                         *)
(* A value is its size in bytes and what is in them: an integer, the name  *)
(* of a byte string, or NoValue for a null pointer.                        *)
(***************************************************************************)
EXTENDS Integers, Sequences, FiniteSets

CONSTANTS
    Ints,          \* integers that are passed
    Blobs,         \* byte strings that are passed: size and value
    NoValue,       \* a null pointer
    EINVAL,        \* what a refused getsockopt returns
    BufferSizes,   \* sizes of the buffers getsockopt is given
    MaxOthers      \* bound: accepted calls for options outside of PLAIN

VARIABLES
    opts,     \* the fields
    last,     \* history: the option and the value last set, or what was refused
    asked,    \* history: the last that was asked of the PLAIN mechanism
    others    \* history: calls accepted for options outside of PLAIN

vars == <<opts, last, asked, others>>

IntSize == 4
LongSize == 8

NonNegative == {"SNDHWM", "RCVHWM", "RECOVERY_IVL", "SNDBUF", "RCVBUF",
                "RECONNECT_IVL_MAX", "BACKLOG"}
Positive == {"RATE", "MULTICAST_HOPS"}
FromMinusOne == {"LINGER", "RECONNECT_IVL", "RCVTIMEO", "SNDTIMEO", "TCP_KEEPALIVE_CNT",
                 "TCP_KEEPALIVE_IDLE", "TCP_KEEPALIVE_INTVL"}
Flags == {"IPV4ONLY", "IPV6", "IMMEDIATE", "CONFLATE"}
IntOptions == NonNegative \cup Positive \cup FromMinusOne \cup Flags \cup {"TCP_KEEPALIVE"}
LongOptions == {"AFFINITY", "MAXMSGSIZE"}
Credentials == {"PLAIN_USERNAME", "PLAIN_PASSWORD"}
PlainOptions == {"PLAIN_SERVER"} \cup Credentials
StringOptions == Credentials \cup {"ZAP_DOMAIN"}

\* The options a caller names, the ones that cannot be set and unknown ones too.
OptionNames == IntOptions \cup LongOptions \cup PlainOptions
               \cup {"IDENTITY", "ZAP_DOMAIN", "TYPE", "MECHANISM", "TCP_ACCEPT_FILTER"}

Arg(size, value) == [size |-> size, value |-> value]
Args == {Arg(n, v) : n \in {IntSize, LongSize}, v \in Ints} \cup Blobs

Default ==
    [o \in IntOptions |->
       CASE o \in {"SNDHWM", "RCVHWM"} -> 1000
         [] o \in {"RATE", "RECONNECT_IVL", "BACKLOG"} -> 100
         [] o = "RECOVERY_IVL" -> 10000
         [] o = "MULTICAST_HOPS" -> 1
         [] o \in {"SNDBUF", "RCVBUF", "RECONNECT_IVL_MAX", "IPV6", "IMMEDIATE", "CONFLATE"} -> 0
         [] OTHER -> -1]

Nothing == Arg(0, NoValue)

Init ==
    /\ opts = [ints |-> Default, affinity |-> 0, maxmsgsize |-> -1, type |-> -1,
               identity |-> Nothing, mechanism |-> "NULL", as_server |-> 0,
               strings |-> [o \in StringOptions |-> Nothing]]
    /\ last = [option |-> "none", arg |-> Nothing, ok |-> FALSE]
    /\ asked = "nothing"
    /\ others = 0

-----------------------------------------------------------------------------
(* setsockopt *)

\* The test of TCP_KEEPALIVE, value >= -1 || value <= 1, holds for every value.
Accepts(option, value) ==
    CASE option \in NonNegative -> value >= 0
      [] option \in Positive -> value > 0
      [] option \in FromMinusOne -> value >= -1
      [] option \in Flags -> value \in {0, 1}
      [] OTHER -> TRUE

\* IPV4ONLY is kept as the negation of IPV6.
WithInt(option, value) ==
    [opts EXCEPT !.ints[IF option = "IPV4ONLY" THEN "IPV6" ELSE option] =
        IF option = "IPV4ONLY" THEN 1 - value ELSE value]

\* Every way an option is set: the call succeeds and the fields are `after'.
Accepted(option, arg, after) ==
    /\ opts' = after
    /\ last' = [option |-> option, arg |-> arg, ok |-> TRUE]

Other == others < MaxOthers /\ others' = others + 1 /\ UNCHANGED asked

SetInt ==
    \E option \in IntOptions, arg \in Args :
        /\ arg.size = IntSize /\ Accepts(option, arg.value)
        /\ Accepted(option, arg, WithInt(option, arg.value))
        /\ Other

SetLong ==
    \E arg \in Args :
        /\ arg.size = LongSize
        /\ \/ Accepted("AFFINITY", arg, [opts EXCEPT !.affinity = arg.value])
           \/ Accepted("MAXMSGSIZE", arg, [opts EXCEPT !.maxmsgsize = arg.value])
        /\ Other

\* An identity is not empty, shorter than 256 and does not begin with a zero
\* byte, as the integer 0 does.
IsIdentity(arg) == arg.size \in 1 .. 255 /\ arg.value \notin {0, NoValue}

SetIdentity ==
    \E arg \in Args :
        /\ IsIdentity(arg)
        /\ Accepted("IDENTITY", arg, [opts EXCEPT !.identity = arg])
        /\ Other

SetPlainServer ==
    \E arg \in Args :
        /\ arg.size = IntSize /\ arg.value \in {0, 1}
        /\ Accepted("PLAIN_SERVER", arg,
                    [opts EXCEPT !.as_server = arg.value,
                                 !.mechanism = IF arg.value = 1 THEN "PLAIN" ELSE "NULL"])
        /\ asked' = IF arg.value = 1 THEN "server" ELSE "nothing"
        /\ UNCHANGED others

IsCredential(arg) == arg.size \in 1 .. 255 /\ arg.value # NoValue

\* Fault: a client's credential leaves the role of a server.
SetCredentialStaysServer ==
    \E option \in Credentials, arg \in Blobs :
        /\ IsCredential(arg)
        /\ Accepted(option, arg, [opts EXCEPT !.strings[option] = arg, !.mechanism = "PLAIN"])
        /\ asked' = "client"
        /\ UNCHANGED others

SetCredential ==
    \E option \in Credentials, arg \in Blobs :
        /\ IsCredential(arg)
        /\ Accepted(option, arg, [opts EXCEPT !.strings[option] = arg, !.as_server = 0,
                                              !.mechanism = "PLAIN"])
        /\ asked' = "client"
        /\ UNCHANGED others

\* A null credential turns the mechanism off and leaves the credentials.
DropCredential ==
    \E option \in Credentials :
        /\ Accepted(option, Nothing, [opts EXCEPT !.mechanism = "NULL"])
        /\ asked' = "nothing"
        /\ UNCHANGED others

SetZapDomain ==
    \E arg \in Blobs :
        /\ arg.size < 256
        /\ Accepted("ZAP_DOMAIN", arg, [opts EXCEPT !.strings["ZAP_DOMAIN"] = arg])
        /\ Other

\* Everything else ends with EINVAL.
Refused(option, arg) ==
    CASE option \in IntOptions -> ~(arg.size = IntSize /\ Accepts(option, arg.value))
      [] option \in LongOptions -> arg.size # LongSize
      [] option = "IDENTITY" -> ~IsIdentity(arg)
      [] option = "PLAIN_SERVER" -> ~(arg.size = IntSize /\ arg.value \in {0, 1})
      [] option \in Credentials -> ~IsCredential(arg) /\ arg # Nothing
      [] option = "ZAP_DOMAIN" -> arg.size >= 256
      [] OTHER -> TRUE

Refuse ==
    /\ {call \in OptionNames \X Args : Refused(call[1], call[2])} # {}
    /\ last' = [option |-> "none", arg |-> Nothing, ok |-> FALSE]
    /\ UNCHANGED <<opts, asked, others>>

Next ==
    \/ SetInt \/ SetLong \/ SetIdentity \/ SetPlainServer \/ SetCredential
    \/ DropCredential \/ SetZapDomain \/ Refuse

Spec == Init /\ [][Next]_vars

-----------------------------------------------------------------------------
(* getsockopt: the size and the value it leaves, or EINVAL. *)

GetInt(option) ==
    CASE option = "IPV4ONLY" -> 1 - opts.ints["IPV6"]
      [] option = "TYPE" -> opts.type
      [] option = "MECHANISM" -> opts.mechanism
      [] option = "PLAIN_SERVER" ->
           IF opts.as_server = 1 /\ opts.mechanism = "PLAIN" THEN 1 ELSE 0
      [] OTHER -> opts.ints[option]

\* With the terminating zero.
GetString(option, size) ==
    LET kept == opts.strings[option]
    IN IF size >= kept.size + 1 THEN [kept EXCEPT !.size = @ + 1] ELSE EINVAL

GetIdentity(size) == IF size >= opts.identity.size THEN opts.identity ELSE EINVAL

GetLong(option) == IF option = "AFFINITY" THEN opts.affinity ELSE opts.maxmsgsize

getsockopt(option, size) ==
    CASE option \in IntOptions \cup {"PLAIN_SERVER", "TYPE", "MECHANISM"} ->
           IF size = IntSize THEN Arg(IntSize, GetInt(option)) ELSE EINVAL
      [] option \in LongOptions ->
           IF size = LongSize THEN Arg(LongSize, GetLong(option)) ELSE EINVAL
      [] option = "IDENTITY" -> GetIdentity(size)
      [] option \in StringOptions -> GetString(option, size)
      [] OTHER -> EINVAL

-----------------------------------------------------------------------------
(* Properties. *)

\* The types of the fields.
TypeOK ==
    /\ opts.ints \in [IntOptions -> Int] /\ opts.as_server \in {0, 1}
    /\ opts.mechanism \in {"NULL", "PLAIN"}
    /\ opts.strings \in [StringOptions ->
            [size : 0 .. 255, value : {b.value : b \in Blobs} \cup Ints \cup {NoValue}]]

\* What was set can be read back, by any buffer that is large enough, a string
\* with its terminating zero.
SetThenGet ==
    last.ok /\ ~(last.option \in Credentials /\ last.arg = Nothing) =>
        LET extra == IF last.option \in StringOptions THEN 1 ELSE 0
            needed == last.arg.size + extra
        IN /\ getsockopt(last.option, needed) = Arg(needed, last.arg.value)
           /\ \A size \in BufferSizes :
                getsockopt(last.option, size) \in {EINVAL, Arg(needed, last.arg.value)}

\* The options that show the same fields.
SameFields == {{"IPV4ONLY", "IPV6"}, PlainOptions \cup {"MECHANISM"}}

\* What an option shows in a buffer of the right size.
Shown(option) ==
    getsockopt(option, IF option \in LongOptions THEN LongSize
                       ELSE IF option \in StringOptions \cup {"IDENTITY"} THEN 256 ELSE IntSize)

\* Setting an option changes what is read of no other, but of those that show
\* the same fields.
OthersShown ==
    \A option \in OptionNames : Shown(option)' # Shown(option) =>
        \/ option = last'.option
        \/ \E group \in SameFields : {option, last'.option} \subseteq group

\* The mechanism and the role are those last asked for, in whatever order the
\* three options were set before.
PlainAsAsked ==
    /\ getsockopt("PLAIN_SERVER", IntSize).value = IF asked = "server" THEN 1 ELSE 0
    /\ getsockopt("MECHANISM", IntSize).value = IF asked = "nothing" THEN "NULL" ELSE "PLAIN"

=============================================================================
