--------------------------------- MODULE Rpc ---------------------------------
(***************************************************************************)
(* The messages of codec/rpc.proto as the generated classes of rpc.pb.cc   *)
(* and rpc.pb.h implement them.  Each method of each class is written out  *)
(* by the generator; here it is the table of what it does per field, and   *)
(* the operators below the tables say what every class does with its own.  *)
(*                                                                         *)
(*   <Class>_fields    the accessors: kind and default of each member      *)
(*   <Class>_Clear     members reset always and those reset if set         *)
(*   <Class>_Parse     the switch over field numbers of                    *)
(*                     MergePartialFromCodedStream: member and wire kind   *)
(*   <Class>_Serialize what SerializeWithCachedSizesToArray writes         *)
(*   <Class>_ByteSize  the members whose size is added, and as what        *)
(*   <Class>_MergeFrom the members copied from a source that has them      *)
(*                                                                         *)
(* A message is its class, its has bits, its members and the fields it did *)
(* not know when it was parsed.                                            *)
(***************************************************************************)
EXTENDS ProtoWire

U64 == [kind |-> "uint64", default |-> 0]
I32 == [kind |-> "int32", default |-> 0]
I64 == [kind |-> "int64", default |-> 0]
Enum == [kind |-> "enum", default |-> 0]
Str == [kind |-> "string", default |-> NoBytes]
Byt == [kind |-> "bytes", default |-> NoBytes]

Blank(class, fields) ==
    [class |-> class, has |-> {}, unknown |-> <<>>,
     val |-> [f \in DOMAIN fields |-> fields[f].default]]

------------------------------------------------------------------------------
\* StpToken

StpToken_fields == [stp_guid |-> U64, group |-> I32, idx |-> I32, expires |-> I64, key |-> Str]

\* Clear leaves idx_ as it is.
StpToken_Clear_NoIdxMutant ==
    [always |-> {"stp_guid", "group", "expires"}, ifset |-> {"key"}]
StpToken_Clear ==
    [always |-> {"stp_guid", "group", "idx", "expires"}, ifset |-> {"key"}]

\* The expiry is read as an int32.
StpToken_Parse_NarrowMutant ==
    << <<"stp_guid", "uint64">>, <<"group", "int32">>, <<"idx", "int32">>,
       <<"expires", "int32">>, <<"key", "string">> >>
StpToken_Parse ==
    << <<"stp_guid", "uint64">>, <<"group", "int32">>, <<"idx", "int32">>,
       <<"expires", "int64">>, <<"key", "string">> >>

StpToken_Serialize ==
    << <<1, "stp_guid", "uint64">>, <<2, "group", "int32">>, <<3, "idx", "int32">>,
       <<4, "expires", "int64">>, <<5, "key", "string">> >>

StpToken_ByteSize ==
    << <<"stp_guid", "uint64">>, <<"group", "int32">>, <<"idx", "int32">>,
       <<"expires", "int64">>, <<"key", "string">> >>

StpToken_MergeFrom == <<"stp_guid", "group", "idx", "expires", "key">>

Token == [kind |-> "message", default |-> Blank("StpToken", StpToken_fields)]

------------------------------------------------------------------------------
\* Request

Request_fields == [method |-> Str, serialized_request |-> Byt]
Request_Clear == [always |-> {}, ifset |-> {"method", "serialized_request"}]
Request_Parse == << <<"method", "string">>, <<"serialized_request", "bytes">> >>
Request_Serialize == << <<1, "method", "string">>, <<2, "serialized_request", "bytes">> >>
Request_ByteSize == << <<"method", "string">>, <<"serialized_request", "bytes">> >>
Request_MergeFrom == <<"method", "serialized_request">>

\* The only class with a required field.
Request_IsInitialized(m) == "method" \in m.has

------------------------------------------------------------------------------
\* C2S_Ping and S2C_Ping have no fields: a switch with a default case only.

NoFields == [f \in {} |-> U64]
C2S_Ping_Clear == [always |-> {}, ifset |-> {}]
C2S_Ping_Parse == << >>
C2S_Ping_Serialize == << >>
C2S_Ping_ByteSize == << >>
C2S_Ping_MergeFrom == << >>

S2C_Ping_Clear == [always |-> {}, ifset |-> {}]
S2C_Ping_Parse == << >>
S2C_Ping_Serialize == << >>
S2C_Ping_ByteSize == << >>
S2C_Ping_MergeFrom == << >>

------------------------------------------------------------------------------
\* StpCryptoMsg

StpCryptoMsg_fields == [token |-> Token, data |-> Byt]
StpCryptoMsg_Clear == [always |-> {}, ifset |-> {"token", "data"}]
StpCryptoMsg_Parse == << <<"token", "message">>, <<"data", "bytes">> >>
StpCryptoMsg_Serialize == << <<1, "token", "message">>, <<2, "data", "bytes">> >>
StpCryptoMsg_ByteSize == << <<"token", "message">>, <<"data", "bytes">> >>
StpCryptoMsg_MergeFrom == <<"token", "data">>

------------------------------------------------------------------------------
\* C2S_StpCryptoNegotiate

C2S_StpCryptoNegotiate_fields == [stp_guid |-> U64, token |-> Token]
C2S_StpCryptoNegotiate_Clear == [always |-> {"stp_guid"}, ifset |-> {"token"}]
C2S_StpCryptoNegotiate_Parse == << <<"stp_guid", "uint64">>, <<"token", "message">> >>
C2S_StpCryptoNegotiate_Serialize ==
    << <<1, "stp_guid", "uint64">>, <<2, "token", "message">> >>
C2S_StpCryptoNegotiate_ByteSize == << <<"stp_guid", "uint64">>, <<"token", "message">> >>
C2S_StpCryptoNegotiate_MergeFrom == <<"stp_guid", "token">>

------------------------------------------------------------------------------
\* S2C_StpCryptoNegotiate

\* SR_OK = 0 .. SR_ReportStatusFailed = 5; res() of an unset field is SR_OK.
StpResult_IsValid_RangeMutant(value) == value \in 0 .. 6
StpResult_IsValid(value) == value \in 0 .. 5

S2C_StpCryptoNegotiate_fields == [res |-> Enum, stp_guid |-> U64, token |-> Token]
S2C_StpCryptoNegotiate_Clear == [always |-> {"res", "stp_guid"}, ifset |-> {"token"}]
S2C_StpCryptoNegotiate_Parse ==
    << <<"res", "enum">>, <<"stp_guid", "uint64">>, <<"token", "message">> >>
S2C_StpCryptoNegotiate_Serialize ==
    << <<1, "res", "enum">>, <<2, "stp_guid", "uint64">>, <<3, "token", "message">> >>
S2C_StpCryptoNegotiate_ByteSize ==
    << <<"res", "enum">>, <<"stp_guid", "uint64">>, <<"token", "message">> >>
S2C_StpCryptoNegotiate_MergeFrom == <<"res", "stp_guid", "token">>

------------------------------------------------------------------------------
\* S2D_StpReportStatus

S2D_StpReportStatus_fields ==
    [stp_guid |-> U64, key |-> Str, expires |-> Str, group |-> I32, idx |-> I32, ip |-> Str]
S2D_StpReportStatus_Clear ==
    [always |-> {"stp_guid", "group", "idx"}, ifset |-> {"key", "expires", "ip"}]
S2D_StpReportStatus_Parse ==
    << <<"stp_guid", "uint64">>, <<"key", "string">>, <<"expires", "string">>,
       <<"group", "int32">>, <<"idx", "int32">>, <<"ip", "string">> >>
S2D_StpReportStatus_Serialize ==
    << <<1, "stp_guid", "uint64">>, <<2, "key", "string">>, <<3, "expires", "string">>,
       <<4, "group", "int32">>, <<5, "idx", "int32">>, <<6, "ip", "string">> >>
S2D_StpReportStatus_ByteSize ==
    << <<"stp_guid", "uint64">>, <<"key", "string">>, <<"expires", "string">>,
       <<"group", "int32">>, <<"idx", "int32">>, <<"ip", "string">> >>
S2D_StpReportStatus_MergeFrom == <<"stp_guid", "key", "expires", "group", "idx", "ip">>
==============================================================================
