------------------------------ MODULE IpRotation ------------------------------
(***************************************************************************)
(* core/ip_manager.py: clean IPs put in the place of the servers of stored *)
(* configs, with what core/utils.py reads from the text of a config.       *)
(*                                                                         *)
(* A text is a record: its scheme; whether that is written in lower case;  *)
(* its server, the part that stands between "@" and ":" or, for vmess, in  *)
(* the field "add", and NoHost when there is none; whether a vmess payload *)
(* is JSON only after dropping bytes that are not UTF-8 ("lossy"); and the *)
(* rest.  (Of an IPv6 address in brackets both the reading and the writing *)
(* take what precedes its first colon for the server; such texts are left  *)
(* out.)                                                                   *)
(***************************************************************************)
EXTENDS Integers, Sequences

CONSTANT NoHost  \* None

Schemes == {"vless", "vmess", "trojan", "ss"}

\* The comparison of detect_protocol is made in lower case, ...
detect_protocol(text) ==
    IF text.scheme \notin Schemes THEN "unknown"
    ELSE IF text.scheme = "ss" THEN "shadowsocks" ELSE text.scheme

\* ... that of extract_host is not.
extract_host(text) ==
    IF text.scheme \in Schemes /\ text.lower THEN text.server ELSE NoHost

\* _apply_ip_vmess decodes strictly where extract_host did not, and a vmess link
\* not in lower case goes the way of the others, which finds no "@" in it.
Replaceable(text) ==
    /\ text.server # NoHost
    /\ text.scheme = "vmess" => text.lower /\ ~text.lossy

\* A text in which nothing can be replaced is exported as it is (line 189).
apply_ip(text, ip) == IF Replaceable(text) THEN [text EXCEPT !.server = ip] ELSE text

\* Mutant: the position is not taken modulo the number of configs.
ApplyLast(ips, texts, apply_per_ip) ==
    [k \in 1 .. Len(ips) * apply_per_ip |->
        LET i == (k - 1) % apply_per_ip
        IN  apply_ip(texts[IF i < Len(texts) THEN i + 1 ELSE Len(texts)],
                     ips[((k - 1) \div apply_per_ip) + 1])]

\* For each IP the first apply_per_ip configs, beginning again when they are
\* fewer, and beginning at the first for each IP.
apply_ips_to_configs(ips, texts, apply_per_ip) ==
    [k \in 1 .. Len(ips) * apply_per_ip |->
        apply_ip(texts[(((k - 1) % apply_per_ip) % Len(texts)) + 1],
                 ips[((k - 1) \div apply_per_ip) + 1])]
=============================================================================
