------------------------------ MODULE Profile ------------------------------
(***************************************************************************)
(* The configuration of the server and of the client: JsonParser and the   *)
(* two ConfigParsers, as what they read from the root value of a file.     *)
(* Nothing catches what Json::Value throws, so a member of another type    *)
(* ends the process.                                                       *)
(***************************************************************************)
EXTENDS JsonValue

CONSTANTS NameOf,    \* the member names of the files, as texts
          DefaultOf, \* the defaults of the numbers
          PortBits   \* the port is cast to a 16-bit integer

ASSUME ProfileAssumption == PortBits \in Nat \ {0} /\ PortBits < IntBits

GetInteger(t, key, default) == UNION {asInt(v) : v \in get(t, <<>>, NameOf[key], intValue(default))}
GetUint64(t, key, default) == UNION {asUInt64(v) : v \in get(t, <<>>, NameOf[key], uintValue(default))}
GetString(t, key, default) == UNION {asCString(v) : v \in get(t, <<>>, NameOf[key], stringValue(default))}

ToInt16(n) == ((n + 2 ^ (PortBits - 1)) % 2 ^ PortBits) - 2 ^ (PortBits - 1)
IntegerOf(t, key) == GetInteger(t, key, DefaultOf[key])
Text(t, key) == GetString(t, key, IF key = "path" THEN <<>> ELSE NameOf[key])   \* the defaults' text is left out
\* Both programs read flag from max_idx, the client with another default.
ServerProfile(t) ==
  [svr_port |-> {ToInt16(n) : n \in IntegerOf(t, "svr_port")}, event_thread_cnt |-> IntegerOf(t, "event_thread_cnt"),
   max_group |-> IntegerOf(t, "max_group"), max_idx |-> IntegerOf(t, "max_idx"), flag |-> IntegerOf(t, "max_idx"),
   token_expires |-> IntegerOf(t, "token_expires"), db_port |-> IntegerOf(t, "db_port"), path |-> Text(t, "path"),
   db_addr |-> Text(t, "db_addr"), db_user |-> Text(t, "db_user"), db_passwd |-> Text(t, "db_passwd"),
   database |-> Text(t, "database")]

ClientProfile(t) ==
  [svr_ip |-> Text(t, "svr_ip"), svr_port |-> {ToInt16(n) : n \in IntegerOf(t, "svr_port")}, path |-> Text(t, "path"),
   flag |-> IntegerOf(t, "max_idx"), stp_guid |-> GetUint64(t, "stp_guid", 0), max_idx |-> GetInteger(t, "max_idx", 1)]
=============================================================================
