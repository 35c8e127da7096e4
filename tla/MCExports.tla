------------------------------ MODULE MCExports ------------------------------
(* Exports on a small instance: of every kind of row one, saved in three   *)
(* commits.                                                                *)
EXTENDS Exports

CONSTANTS vless, plain, json, vmess, trojan, bare, server, ip1, ip2

\* The JSON document is a row somebody put into the table: scrapers find links.
\* The vmess link can be decoded only leniently; the "ss" link has no "@"; the
\* two vless links differ in their server only.
MCIncoming == <<{json, trojan}, {bare, vmess}, {vless, plain}>>
MCText == [r \in Rows |->
    [scheme |-> CASE r \in {vless, plain} -> "vless" [] r = vmess -> "vmess" [] r = trojan -> "trojan"
                  [] r = bare -> "ss" [] OTHER -> "{",
     lower  |-> TRUE,
     server |-> IF r = bare \/ r = json THEN NoHost ELSE IF r = vless THEN ip1 ELSE server,
     lossy  |-> r = vmess,
     rest   |-> IF r = vless THEN plain ELSE r]]
MCHost == [r \in Rows |-> IF r = bare THEN NoHost ELSE IF r = vless THEN ip1 ELSE server]
=============================================================================
