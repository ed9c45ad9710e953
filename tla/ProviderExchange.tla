--------------------------- MODULE ProviderExchange ---------------------------
(***************************************************************************)
(* What a connector learns from its provider: the credential is resolved    *)
(* (secrets/oci.py, core/secrets.py), the clients of GA4, Search Console    *)
(* and Ad Manager talk to the provider, and the answer is normalised.       *)
(*                                                                          *)
(* An exchange is a script of responses.  A status is that of HTTP; 0 is a  *)
(* transport that failed, -1 a body that is not a JSON object.  What comes  *)
(* out is success or one error, with its code and whether it is worth a     *)
(* retry.                                                                   *)
(***************************************************************************)
EXTENDS Normalization

CONSTANTS
    GSCRowLimit, GSCMaxRows,            \* rows of a page, and of a query
    MaxPolls, GAMPageSize, GAMMaxRows   \* polls of an operation, rows of page and result

ASSUME ExchangeAssumption ==
    /\ GSCRowLimit \in Nat \ {0} /\ GSCMaxRows \in Nat \ {0}
    /\ MaxPolls \in Nat \ {0} /\ GAMPageSize \in Nat /\ GAMMaxRows \in Nat

------------------------------------------------------------------------------
(* The credential.                                                           *)

\* EnvironmentAccessTokenResolver.
EnvironmentToken(environment, secret) ==
    CASE environment = "production" -> Says("SECRET_PROVIDER_UNAVAILABLE", FALSE)
      [] environment # "production" /\ secret = Missing -> Says("SECRET_NOT_FOUND", FALSE)
      [] OTHER -> Success

\* OciSecretStore.resolve and parse_credential_bundle.
VaultError(status) ==
    CASE status \in {401, 403} -> Says("SECRET_PROVIDER_UNAUTHORIZED", FALSE)
      [] status = 404 -> Says("SECRET_NOT_FOUND", FALSE)
      [] status \in 500 .. 599 -> Says("SECRET_PROVIDER_UNAVAILABLE", TRUE)
      [] OTHER -> Says("SECRET_PROVIDER_UNAVAILABLE", FALSE)

\* _raise_for_google_response, and a response without a token.
RefreshError(r) ==
    IF r.http = 200
    THEN IF r.token = Missing THEN Says("GOOGLE_TOKEN_INVALID", FALSE) ELSE Success
    ELSE IF r.error = "invalid_grant" THEN Says("GOOGLE_INVALID_GRANT", FALSE)
    ELSE IF r.error = "invalid_client" THEN Says("GOOGLE_INVALID_CLIENT", FALSE)
    ELSE IF r.http = 403 \/ r.error = "insufficient" THEN Says("GOOGLE_INSUFFICIENT_SCOPE", FALSE)
    ELSE IF r.http >= 500 THEN Says("GOOGLE_TOKEN_UNAVAILABLE", TRUE)
    ELSE Says("GOOGLE_TOKEN_ERROR", FALSE)

\* OciAccessTokenResolver: a new access token for every exchange.
OciToken(s) ==
    CASE s.vault # 200 -> VaultError(s.vault)
      [] s.vault = 200 /\ s.bundle # "sound" -> Says("SECRET_BUNDLE_INVALID", FALSE)
      [] OTHER -> RefreshError(s.refresh)

------------------------------------------------------------------------------
(* _http_error and the transport of each client.                             *)

GA4HttpError(status) ==
    CASE status = 0 -> Says("TRANSPORT_ERROR", TRUE)
      [] status = -1 -> Unreadable
      [] status = 401 -> Says("AUTH_EXPIRED", FALSE)
      [] status = 403 -> Says("PERMISSION_ERROR", FALSE)
      [] status = 429 -> Says("QUOTA_LIMIT", TRUE)
      [] status = 400 -> Says("INVALID_QUERY", FALSE)
      [] status \in 500 .. 599 -> Says("PROVIDER_ERROR", TRUE)
      [] OTHER -> Says("PROVIDER_ERROR", FALSE)

GSCHttpError(status) == GA4HttpError(status)

GAMHttpError(status) ==
    CASE status = 404 -> Says("REPORT_NOT_FOUND", FALSE)
      [] status = 400 -> Says("INVALID_REPORT", FALSE)
      [] OTHER -> GA4HttpError(status)

------------------------------------------------------------------------------
(* GA4: one response.                                                        *)

GA4Report(r) == IF r.http # 200 THEN Refused(GA4HttpError(r.http)) ELSE GA4Normalized(r)

------------------------------------------------------------------------------
(* Search Console: pages until one is short or there are enough rows.  All    *)
(* say the same of their aggregation and of what is incomplete.               *)

GSCPages(pages) ==
    LET none == [rows |-> <<>>, aggregation |-> Missing, incomplete |-> Missing,
                 unit |-> Missing, error |-> Success, more |-> TRUE]
        says(a, b) == IF a = Missing THEN b ELSE a
        clash(a, b) == a # Missing /\ b # Missing /\ a # b
        after[n \in 0 .. Len(pages)] ==
            IF n = 0 THEN none
            ELSE LET b == after[n - 1]
                     p == pages[n]
                     broken(a) == [b EXCEPT !.error = a, !.more = FALSE]
                 IN CASE ~b.more -> b
                      [] b.more /\ p.http # 200 -> broken(GSCHttpError(p.http))
                      [] b.more /\ p.http = 200
                         /\ (clash(b.aggregation, p.aggregation) \/ clash(b.incomplete, p.incomplete))
                         -> broken(Unreadable)
                      [] OTHER ->
                         [rows |-> b.rows \o p.rows, error |-> Success,
                          aggregation |-> says(b.aggregation, p.aggregation),
                          incomplete |-> says(b.incomplete, p.incomplete),
                          unit |-> says(b.unit, p.unit),
                          more |-> Len(p.rows) >= GSCRowLimit
                                   /\ Len(b.rows) + Len(p.rows) < GSCMaxRows]
    IN after[Len(pages)]

\* A script that ends while a page is still wanted is a transport that failed.
GSCQuery(pages, state) ==
    LET r == GSCPages(pages) IN
    CASE r.error # Success -> Refused(r.error)
      [] r.error = Success /\ r.more -> Refused(GSCHttpError(0))
      [] OTHER -> GSCNormalized([r EXCEPT !.rows =
                      SubSeq(@, 1, IF Len(@) < GSCMaxRows THEN Len(@) ELSE GSCMaxRows)], state)

------------------------------------------------------------------------------
(* Ad Manager: an operation is started and polled until it is done, and its   *)
(* result fetched page by page.                                              *)

\* The first of polls is the response to the start; it and MaxPolls more are read.
\* A state is "odd" when it is not known, or of another operation or report.
GAMOperation(polls) ==
    LET decisive == {i \in DOMAIN polls : polls[i].http # 200 \/ polls[i].state # "running"}
        first == CHOOSE i \in decisive : \A k \in decisive : i <= k
    IN CASE decisive = {} -> Says("REPORT_TIMEOUT", TRUE)
         [] decisive # {} /\ first > MaxPolls + 1 -> Says("REPORT_TIMEOUT", TRUE)
         [] decisive # {} /\ first <= MaxPolls + 1 ->
              CASE polls[first].http # 200 -> GAMHttpError(polls[first].http)
                [] polls[first].http = 200 /\ polls[first].state = "failed" -> Says("REPORT_FAILED", TRUE)
                [] polls[first].http = 200 /\ polls[first].state = "done" -> Success
                [] OTHER -> Unreadable

\* Only the first page announces the total.
GAMPages(pages) ==
    LET after[n \in 0 .. Len(pages)] ==
            IF n = 0 THEN [rows |-> <<>>, error |-> Success, tokens |-> {}, more |-> TRUE]
            ELSE LET b == after[n - 1]
                     p == pages[n]
                     rows == b.rows \o p.rows
                     broken(a) == [b EXCEPT !.error = a, !.more = FALSE]
                     odd == Len(p.rows) > GAMPageSize \/ (n = 1) # (p.total # Missing)
                     large == Len(rows) > GAMMaxRows \/ (n = 1 /\ p.total > GAMMaxRows)
                 IN CASE ~b.more -> b
                      [] b.more /\ p.http # 200 -> broken(GAMHttpError(p.http))
                      [] b.more /\ p.http = 200 /\ odd -> broken(Unreadable)
                      [] b.more /\ p.http = 200 /\ ~odd /\ large -> broken(Says("RESULT_TOO_LARGE", FALSE))
                      [] b.more /\ p.http = 200 /\ ~odd /\ ~large /\ p.next \in b.tokens -> broken(Unreadable)
                      [] OTHER -> [rows |-> rows, error |-> Success,
                                   tokens |-> b.tokens \cup ({p.next} \ {Missing}),
                                   more |-> p.next # Missing]
    IN after[Len(pages)]

GAMReport(r, profile) ==
    LET o == GAMOperation(r.polls)
        p == GAMPages(r.pages)
    IN CASE o # Success -> Refused(o)
         [] o = Success /\ p.error # Success -> Refused(p.error)
         [] o = Success /\ p.error = Success /\ p.more -> Refused(GAMHttpError(0))
         [] o = Success /\ p.error = Success /\ ~p.more /\ Len(p.rows) # r.pages[1].total ->
                Refused(Says("PARTIAL_RESULT", TRUE))
         [] OTHER -> GAMNormalized([rows |-> p.rows, total |-> r.pages[1].total,
                                    dates |-> r.dates, today |-> r.today], profile)
=============================================================================
