---------------------------- MODULE JsonReaderMC ----------------------------
(***************************************************************************)
(* Model values for JsonReader: 5-bit and 8-bit integers, doubles of 6     *)
(* bits; the tokens of a file, the calls' arguments and the features.      *)
(***************************************************************************)
EXTENDS JsonReader

Features(comments, strict, dropped, keys) ==
  [allowComments |-> comments, strictRoot |-> strict, allowDroppedNullPlaceholders |-> dropped, allowNumericKeys |-> keys]
MCFeatureSets == {Features(TRUE, FALSE, FALSE, FALSE),   \* all()
                  Features(FALSE, TRUE, FALSE, FALSE),   \* strictMode()
                  Features(TRUE, FALSE, TRUE, TRUE)}     \* the two options of neither

A == <<97>>
Quoted(s) == <<Quote>> \o s \o <<Quote>>
Name == <<StringToken(Quoted(A), FALSE), Mark(":", FALSE)>>
\* Single tokens, with a comment of each kind, what begins a member, and an array.
MCPhrases == {<<Mark(k, FALSE)>> : k \in {"{", "}", "[", "]", ",", "c", "cpp", "blank", "bad"}}
             \cup {<<Mark("]", TRUE)>>, <<Mark("cnl", FALSE)>>, <<NumberToken(<<49, 54>>, FALSE)>>}
             \cup {<<StringToken(Quoted(<<Backslash, 120>>), FALSE)>>}   \* a bad escape
             \cup {<<Mark("{", FALSE)>> \o Name, <<Mark(",", FALSE)>> \o Name,
                   <<Mark("[", FALSE), NumberToken(<<49, 54>>, FALSE), Mark("]", FALSE)>>}

MCLeaves == {intValue(-128), uintValue(255), realValue(512), negativeZero, stringValue(<<Quote, 0, 31>>)}
MCNames == {<<>>, A}
MCNameOf == [k \in {"svr_port", "stp_guid"} |-> A] @@
            [k \in {"event_thread_cnt", "max_group", "max_idx", "token_expires", "db_port", "db_addr", "db_user", "db_passwd",
                    "database", "svr_ip"} |-> <<98>>] @@ [path |-> <<>>]
MCDefaultOf == [k \in DOMAIN MCNameOf |-> 3]
=============================================================================
