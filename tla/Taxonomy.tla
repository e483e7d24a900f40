------------------------------ MODULE Taxonomy ------------------------------
(***************************************************************************)
(* How a provider's failure becomes one of seven classes                   *)
(* (keel/providers/normalize.py), what a class means to the breaker        *)
(* (keel/providers/errors.py, D7) and to the client (keel/api/errors.py).  *)
(* An exception is the name of its type and the phrases its text holds.    *)
(***************************************************************************)
EXTENDS Integers, Sequences, FiniteSetsExt

ErrorClass == {"rate_limit", "timeout", "server_error", "quota_exhausted",
               "auth_failure", "content_filter", "bad_request"}

(* The exception types of openai and (L...) of litellm under their bases,  *)
(* as far as normalize.py tells them apart.  Unrelated is any other type.  *)
Children == [
    Exception |-> {"OpenAIError", "LBudgetExceededError", "Unrelated"},
    OpenAIError |-> {"APIError", "LOpenAIError"},
    APIError |-> {"APIConnectionError", "RateLimitError", "AuthenticationError",
                  "PermissionDeniedError", "BadRequestError", "NotFoundError",
                  "UnprocessableEntityError", "ConflictError",
                  "InternalServerError", "LServiceUnavailableError",
                  "LBadGatewayError", "LAPIError"},
    APIConnectionError |-> {"APITimeoutError", "LAPIConnectionError"},
    APITimeoutError |-> {"LTimeout"},
    BadRequestError |-> {"LContentPolicyViolationError",
                         "LContextWindowExceededError"}]

Exceptions == UNION {Children[b] : b \in DOMAIN Children}
BaseOf(t) == CHOOSE b \in DOMAIN Children : t \in Children[b]

\* isinstance(t(), u) is u \in Lineage[t].
Lineage[t \in Exceptions \cup {"Exception"}] ==
    {t} \cup (IF t = "Exception" THEN {} ELSE Lineage[BaseOf(t)])

-----------------------------------------------------------------------------
\* _error_map: most specific first, matched by isinstance.
ErrorMap == <<
    <<"LTimeout", "timeout">>,
    <<"LBudgetExceededError", "quota_exhausted">>,
    <<"LContentPolicyViolationError", "content_filter">>,
    <<"LContextWindowExceededError", "bad_request">>,
    <<"LServiceUnavailableError", "server_error">>,
    <<"LBadGatewayError", "server_error">>,
    <<"APITimeoutError", "timeout">>,
    <<"RateLimitError", "rate_limit">>,
    <<"AuthenticationError", "auth_failure">>,
    <<"PermissionDeniedError", "auth_failure">>,
    <<"BadRequestError", "bad_request">>,
    <<"UnprocessableEntityError", "bad_request">>,
    <<"NotFoundError", "bad_request">>,
    <<"ConflictError", "bad_request">>,
    <<"InternalServerError", "server_error">>,
    <<"APIConnectionError", "server_error">>,
    <<"APIError", "server_error">>,
    <<"OpenAIError", "server_error">> >>

\* _classify_by_type: the first row that matches; unmapped is server_error.
ClassifyByType(t) ==
    LET matching == {i \in DOMAIN ErrorMap : ErrorMap[i][1] \in Lineage[t]}
    IN  IF matching = {} THEN "server_error" ELSE ErrorMap[Min(matching)][2]

Phrases == {"bad_key", "throttled"}

\* _REFINEMENTS: the rules of Cohere, in the order they are tried.
Refinements(adapter) ==
    IF adapter = "cohere"
    THEN << <<"bad_key", "auth_failure">>, <<"throttled", "rate_limit">> >>
    ELSE << >>

\* Mutant of Refine: message rules override what the type says.
RefineAnyClass(class, text, adapter) ==
    LET rules == Refinements(adapter)
        matching == {i \in DOMAIN rules : rules[i][1] \in text}
    IN  IF matching = {} THEN class ELSE rules[Min(matching)][2]

\* matching_refinement and _refine: nothing but server_error is replaced.
Refine(class, text, adapter) ==
    LET rules == Refinements(adapter)
        matching == {i \in DOMAIN rules : rules[i][1] \in text}
    IN  IF class # "server_error" \/ matching = {} THEN class
        ELSE rules[Min(matching)][2]

Normalize(t, text, adapter) == Refine(ClassifyByType(t), text, adapter)

-----------------------------------------------------------------------------
\* _TAXONOMY: D7.  retry_elsewhere, which nothing reads yet, has the same rows.
CountsTowardBreaker(class) ==
    class \notin {"auth_failure", "content_filter", "bad_request"}

QuotaIsYours(class) ==                                 \* mutant of UpstreamStatus
    CASE class \in {"bad_request", "content_filter", "quota_exhausted"} -> 400
      [] class = "rate_limit" -> 429
      [] class = "timeout" -> 504
      [] class \in {"auth_failure", "server_error"} -> 503

\* _UPSTREAM_BY_CLASS.
UpstreamStatus(class) ==
    CASE class \in {"bad_request", "content_filter"} -> 400
      [] class \in {"rate_limit", "quota_exhausted"} -> 429
      [] class = "timeout" -> 504
      [] class \in {"auth_failure", "server_error"} -> 503
=============================================================================
