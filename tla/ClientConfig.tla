---------------------------- MODULE ClientConfig ----------------------------
(***************************************************************************)
(* The configuration of a client before it connects (src/lib.rs): the      *)
(* setters, he_client_is_config_valid, and the checks he_client_connect    *)
(* makes of the same fields.  A string is unset, UTF-8 or some other bytes.*)
(***************************************************************************)

Bytes == {"utf8", "other"}
Text == {"unset"} \cup Bytes

VARIABLE config

\* The fields of he_ssl_ctx_t and he_conn_t that connecting depends on; every
\* other setter stores a value that is only passed on to the core.
Configs == [outside_write_cb : BOOLEAN, ca_cert : BOOLEAN, username : Text,
            password : Text, auth_token : Text, server_dn : Text,
            sni_hostname : Text]

unset == [outside_write_cb |-> FALSE, ca_cert |-> FALSE, username |-> "unset",
          password |-> "unset", auth_token |-> "unset", server_dn |-> "unset",
          sni_hostname |-> "unset"]

ConfigInit == config = unset

set_outside_write_cb == config' = [config EXCEPT !.outside_write_cb = TRUE]

set_ca == config' = [config EXCEPT !.ca_cert = TRUE]

\* The only setter that checks its string.
set_server_dn(s) ==
    /\ s = "utf8"
    /\ config' = [config EXCEPT !.server_dn = s]

set_username(s) == config' = [config EXCEPT !.username = s]

set_password(s) == config' = [config EXCEPT !.password = s]

set_auth_token(s) == config' = [config EXCEPT !.auth_token = s]

set_sni_hostname(s) == config' = [config EXCEPT !.sni_hostname = s]

ConfigNext == \/ set_outside_write_cb \/ set_ca
              \/ \E s \in Bytes : \/ set_server_dn(s)
                                  \/ set_username(s) \/ set_password(s)
                                  \/ set_auth_token(s) \/ set_sni_hostname(s)

ConfigSpec == ConfigInit /\ [][ConfigNext]_config

-----------------------------------------------------------------------------
has_user_pass(c) == c.username # "unset" /\ c.password # "unset"

is_config_valid(c) ==
    IF \/ ~has_user_pass(c) /\ c.auth_token = "unset"
       \/ ~c.outside_write_cb
       \/ ~c.ca_cert
    THEN "HE_ERR_CONF_NOT_SET" ELSE "HE_SUCCESS"

\* The credential he_client_connect picks: the pair before the token.
credentials(c) == IF has_user_pass(c) THEN {c.username, c.password}
                                      ELSE {c.auth_token}

\* What he_client_connect makes of the configuration, in the order of its
\* checks; "HE_SUCCESS" stands for going on to build the connection.
connect_checks(c) ==
    IF ~c.outside_write_cb \/ ~c.ca_cert \/ "unset" \in credentials(c)
    THEN "HE_ERR_CONF_NOT_SET"
    ELSE IF "other" \in credentials(c) \cup {c.server_dn, c.sni_hostname}
         THEN "HE_ERR_BAD_PARAM"
    ELSE "HE_SUCCESS"

-----------------------------------------------------------------------------
\* he_client_is_config_valid: "validation must agree" with he_client_connect
\* about what is absent: after any sequence of setters both say that something
\* is not set, or neither does.
AgreeOnAbsence ==
    is_config_valid(config) = "HE_ERR_CONF_NOT_SET"
        <=> connect_checks(config) = "HE_ERR_CONF_NOT_SET"

\* The documentation of he_client_is_config_valid: "fully configured and ready
\* to connect", and its comment: it must not "report a config as ready that
\* cannot actually connect".
ReadyMeansAccepted ==
    is_config_valid(config) = "HE_SUCCESS"
        => connect_checks(config) = "HE_SUCCESS"
=============================================================================
