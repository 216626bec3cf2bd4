---------------------------- MODULE ReadOnlyGuard ----------------------------
(***************************************************************************)
(* The read-only guard.  Each tab of the chunk's pool installs a route     *)
(* handler on the browser context all tabs share; the handler judges every *)
(* request of every page and aborts what would change the account.  A new  *)
(* handler starts in the weaker mode the sign-in needs and becomes strict  *)
(* when its installation returns.  What a GraphQL request does shows only  *)
(* in its document, which the guard parses itself.                         *)
(***************************************************************************)
EXTENDS ModelBounds, SequencesExt

CONSTANTS
  PoolSize,       \* the tabs of the pool are 1..PoolSize, in the order they open
  MaxDefinitions  \* bound on the definitions of a GraphQL document

ASSUME GuardAssumption == PoolSize \in Nat \ {0} /\ MaxDefinitions \in Nat

VARIABLES
  routes,     \* the context's handlers, newest first: the tab and its mode
  guardOf,    \* each tab: where it is with its guard
  poolPhase,  \* opening the tabs, reading, rejected, closing without a read
  seen        \* the last request, its verdict and when it was made

guardState == <<routes, guardOf, poolPhase, seen>>
guardVars == <<guardState, boundVars>>

GuardTabs == 1..PoolSize

GuardInit ==
  /\ routes = <<>> /\ guardOf = [t \in GuardTabs |-> "off"]
  /\ poolPhase = "opening" /\ seen = None /\ BoundsInit

-----------------------------------------------------------------------------
(* A GraphQL source is a sequence of lexemes: names, punctuation, literals,  *)
(* comments, and what cannot be read; lbrace and rbrace are the curly       *)
(* brackets.                                                                 *)
OperationTypes == {"query", "mutation", "subscription"}
Names == OperationTypes \cup {"fragment", "on", "a", "b"}
Unreadable == {"unclosed", "unknown"}
Punctuation == {"lbrace", "rbrace", "(", ")", "$", ":", "=", "@", "comma"}
Lexemes == Names \cup Unreadable \cup Punctuation \cup {"literal", "comment"}

\* What is left of a sequence when its elements in S are dropped.
Without(seq, S) ==
  LET kept[n \in 0..Len(seq)] ==
        IF n = 0 THEN <<>> ELSE IF seq[n] \in S THEN kept[n - 1] ELSE Append(kept[n - 1], seq[n])
  IN  kept[Len(seq)]

TokenizeGraphql(source) ==
  IF Range(source) \cap Unreadable # {} THEN None
  ELSE Without(source, {"comment", "comma"})

\* The token at a position; past the end, or where a skip has failed, none.
Failed == 0
At(tokens, i) == IF i \in DOMAIN tokens THEN tokens[i] ELSE "end"

Depth(tokens, from, to, open, close) ==
  Cardinality({i \in from..to : tokens[i] = open}) - Cardinality({i \in from..to : tokens[i] = close})

\* The position after the bracket that closes the one at start.
SkipBalanced(tokens, start, open, close) ==
  LET closed == {i \in start..Len(tokens) : Depth(tokens, start, i, open, close) = 0}
  IN  IF At(tokens, start) # open \/ closed = {} THEN Failed ELSE Min(closed) + 1

SkipArguments(tokens, i) ==
  IF At(tokens, i) = "(" THEN SkipBalanced(tokens, i, "(", ")") ELSE i

\* The most turns the loop over directives takes.
AtSigns(tokens) == Cardinality({i \in DOMAIN tokens : tokens[i] = "@"})

\* The position each turn leaves.
SkipDirectives(tokens, start) ==
  LET skip[n \in 0..AtSigns(tokens)] ==
        LET i == skip[n - 1]
        IN  IF n = 0 THEN start
            ELSE IF At(tokens, i) # "@" THEN i
            ELSE IF At(tokens, i + 1) \notin Names THEN Failed
            ELSE SkipArguments(tokens, i + 2)
  IN  skip[AtSigns(tokens)]

\* The position after the selection that must follow any directives.
SkipBody(tokens, i) == SkipBalanced(tokens, SkipDirectives(tokens, i), "lbrace", "rbrace")

Operation(type, name) == [type |-> type, name |-> name]

\* The absent value is no name, no source and no list of operations.
ASSUME ParserAssumption ==
  /\ None \notin Names /\ None \notin Seq(Lexemes)
  /\ None \notin Seq([type : OperationTypes, name : Names \cup {None}])

\* The top-level definition at position i: its operation, if it is one, and
\* the position after it.
ParseDefinition(tokens, i) ==
  LET named == At(tokens, i + 1) \in Names
      head == IF named THEN i + 2 ELSE i + 1
  IN  CASE At(tokens, i) = "lbrace" ->
             [ops |-> <<Operation("query", None)>>, next |-> SkipBalanced(tokens, i, "lbrace", "rbrace")]
        [] At(tokens, i) = "fragment" ->
             [ops |-> <<>>,
              next |-> IF named /\ At(tokens, i + 2) = "on" /\ At(tokens, i + 3) \in Names
                       THEN SkipBody(tokens, i + 4) ELSE Failed]
        [] At(tokens, i) \in OperationTypes ->
             [ops |-> <<Operation(tokens[i], IF named THEN tokens[i + 1] ELSE None)>>,
              next |-> SkipBody(tokens, SkipArguments(tokens, head))]
        [] OTHER -> [ops |-> <<>>, next |-> Failed]

\* The most turns the loop over definitions takes, two tokens each or more.
Turns(tokens) == (Len(tokens) + 1) \div 2

\* The operations of a document; None where any of it is not understood.
ParseGraphqlOperations(source) ==
  LET tokens == TokenizeGraphql(source)
      parsed[n \in 0..Turns(tokens)] ==
        IF n = 0 THEN [ops |-> <<>>, next |-> 1]
        ELSE LET before == parsed[n - 1]
                 d == ParseDefinition(tokens, before.next)
             IN  IF before.next \notin DOMAIN tokens THEN before
                 ELSE [ops |-> before.ops \o d.ops, next |-> d.next]
      end == parsed[Turns(tokens)]
  IN  IF tokens = None \/ end.next = Failed THEN None ELSE end.ops

\* A body carries no document (absent, not JSON, a persisted query, a batch)
\* or one, with the operation the client selects.
IsExplicitReadQuery(body) ==
  /\ body # None /\ body.source # <<>>
  /\ LET ops == ParseGraphqlOperations(body.source)
         selected == {i \in DOMAIN ops : body.operationName \in {None, ops[i].name}}
     IN  ops # None /\ \E i \in selected : selected = {i} /\ ops[i].type = "query"

ShouldBlockRequest(r, extractionMode) ==
  /\ r.method # "GET"
  /\ IF extractionMode
     THEN r.method # "POST" \/ (IF r.graphql THEN ~IsExplicitReadQuery(r.body) ELSE r.mutationPath)
     ELSE r.mutationPath /\ ~r.authPath

-----------------------------------------------------------------------------
(* The requests pages make.  A document is written from its definitions, so  *)
(* what a server would execute of it is known without parsing.               *)
Definitions ==
  {[kind |-> "shorthand", name |-> None, extras |-> FALSE]} \cup
  [kind : OperationTypes, name : {None, "mutation"}, extras : BOOLEAN] \cup
  [kind : {"fragment"}, name : {"b"}, extras : {TRUE}]

\* Variables with a default, directives, comments and strings, which may say
\* anything, brackets and keywords included.
Render(d) ==
  LET selection == <<"lbrace", "query", "lbrace", "mutation", "comma", "b", "rbrace", "rbrace">>
      variables == <<"(", "$", "a", ":", "b", "=", "lbrace", "a", ":", "literal", "rbrace", ")">>
      directives == <<"comment", "@", "a", "(", "b", ":", "literal", ")", "@", "b">>
      named == IF d.name = None THEN <<>> ELSE <<d.name>>
  IN  CASE d.kind = "shorthand" -> selection
        [] d.kind = "fragment" -> <<"fragment", d.name, "on", "a">>
                                    \o (IF d.extras THEN directives ELSE <<>>) \o selection
        [] OTHER -> <<d.kind>> \o named
                      \o (IF d.extras THEN variables \o directives ELSE <<>>) \o selection

Documents == UNION {[1..n -> Definitions] : n \in 0..MaxDefinitions}

\* Sent whole, or spoiled: a last bracket lost, or an end that cannot be read.
Source(document, damage) ==
  LET text == FlattenSeq([i \in DOMAIN document |-> Render(document[i])])
  IN  CASE damage = "none" -> text
        [] damage = "cut" -> Front(text)
        [] damage = "unreadable" -> Append(text, "unclosed")

GraphqlBody(document, damage, operationName) ==
  [source |-> Source(document, damage), operationName |-> operationName,
   document |-> IF damage = "none" THEN document ELSE <<>>]

Request(method, mutationPath, authPath, graphql, body) ==
  [method |-> method, mutationPath |-> mutationPath, authPath |-> authPath, graphql |-> graphql,
   body |-> body]

\* What a GraphQL server runs of a valid document: the one operation of the
\* selected name, or the only operation.
Executed(r) ==
  LET wanted == r.body.operationName
      ops == {i \in DOMAIN r.body.document : /\ r.body.document[i].kind # "fragment"
                                             /\ wanted \in {None, r.body.document[i].name}}
      run == r.body.document[CHOOSE i \in ops : TRUE].kind
  IN  IF Cardinality(ops) # 1 THEN "nothing" ELSE IF run = "shorthand" THEN "query" ELSE run

\* GraphQL says in the document what it does, any other request by its method
\* and, if it is a POST, by its path.
Mutates(r) ==
  \/ r.method = "DELETE"
  \/ r.method = "POST" /\ IF r.graphql THEN r.body # None /\ Executed(r) = "mutation" ELSE r.mutationPath

ReadsOnly(r) ==
  \/ r.method = "GET"
  \/ r.method = "POST" /\ IF r.graphql THEN r.body # None /\ Executed(r) = "query" ELSE ~r.mutationPath

-----------------------------------------------------------------------------
(* The tabs open one after another; each disposes an earlier guard of its    *)
(* own and adds a handler, which is in force before the call returns.        *)
Unroute(t) == Without(routes, [tab : {t}, strict : BOOLEAN])

InstallGuard(t, progress) ==
  /\ routes' = <<[tab |-> t, strict |-> FALSE]>> \o Unroute(t)
  /\ guardOf' = [guardOf EXCEPT ![t] = progress]
  /\ UNCHANGED <<poolPhase, seen, boundVars>>

OpenTab(t) ==
  /\ poolPhase = "opening" /\ guardOf[t] = "off"
  /\ \A u \in 1..t - 1 : guardOf[u] = "ready"
  /\ InstallGuard(t, "installing")

EnterExtractionMode(t) ==
  /\ guardOf[t] \in {"installing", "reinstalling"}
  /\ routes' = [i \in DOMAIN routes |-> IF routes[i].tab = t THEN [routes[i] EXCEPT !.strict = TRUE]
                                        ELSE routes[i]]
  /\ guardOf' = [guardOf EXCEPT ![t] = IF @ = "installing" THEN "ready" ELSE "leftover"]
  /\ poolPhase' = IF poolPhase = "opening" /\ t = PoolSize THEN "reading" ELSE poolPhase
  /\ UNCHANGED <<seen, boundVars>>

(* The installation fails: the tabs opened so far are closed without a read, *)
(* and the handler of this one stays as it is.                               *)
InstallFails(t) ==
  /\ guardOf[t] = "installing" /\ faults < MaxFaults
  /\ faults' = faults + 1
  /\ guardOf' = [guardOf EXCEPT ![t] = "leftover"]
  /\ poolPhase' = "closing"
  /\ UNCHANGED <<routes, seen, calls, finals>>

(* The pool has read everything, or one tab failed while the others go on.   *)
EndPool ==
  /\ poolPhase = "reading"
  /\ \/ poolPhase' = "closing" /\ UNCHANGED faults
     \/ faults < MaxFaults /\ faults' = faults + 1 /\ poolPhase' = "rejected"
  /\ UNCHANGED <<routes, guardOf, seen, calls, finals>>

(* The finally block disposes the extractors one after another; a guard      *)
(* removes its own handler and no other.                                     *)
DisposeGuard(t) ==
  /\ poolPhase \in {"closing", "rejected"} /\ guardOf[t] = "ready"
  /\ \A u \in 1..t - 1 : guardOf[u] # "ready"
  /\ routes' = Unroute(t)
  /\ guardOf' = [guardOf EXCEPT ![t] = "disposed"]
  /\ UNCHANGED <<poolPhase, seen, boundVars>>

(* A tab of a rejected pool takes its next release: its extractor no longer  *)
(* listens, so it is installed again.                                        *)
ReinstallGuard(t) ==
  /\ poolPhase = "rejected" /\ guardOf[t] = "disposed"
  /\ InstallGuard(t, "reinstalling")

(* A page of the context sends a request; the newest handler judges it.      *)
HandleRequest(r) ==
  /\ calls < MaxCalls /\ calls' = calls + 1
  /\ seen' = [mutates |-> Mutates(r), readsOnly |-> ReadsOnly(r),
              continued |-> routes = <<>> \/ ~ShouldBlockRequest(r, Head(routes).strict),
              reading |-> poolPhase \in {"reading", "rejected"} /\ \E t \in GuardTabs : guardOf[t] = "ready",
              installing |-> \E t \in GuardTabs : guardOf[t] \in {"installing", "reinstalling"}]
  /\ UNCHANGED <<routes, guardOf, poolPhase, finals, faults>>

GuardNext ==
  \/ EndPool
  \/ \E t \in GuardTabs :
       OpenTab(t) \/ EnterExtractionMode(t) \/ InstallFails(t) \/ DisposeGuard(t) \/ ReinstallGuard(t)
  \/ \E method \in {"GET", "POST", "DELETE"}, path, auth, graphql \in BOOLEAN :
       HandleRequest(Request(method, path, auth, graphql, None))
  \/ \E document \in Documents, damage \in {"none", "cut", "unreadable"},
        name \in {None, "a", "mutation"} :
       /\ damage # "none" => Len(document) = 1
       /\ HandleRequest(Request("POST", FALSE, FALSE, TRUE, GraphqlBody(document, damage, name)))

GuardSpec == GuardInit /\ [][GuardNext]_guardVars

-----------------------------------------------------------------------------
GuardTypeOK ==
  /\ \A i \in DOMAIN routes : routes[i].tab \in GuardTabs /\ routes[i].strict \in BOOLEAN
  /\ guardOf \in [GuardTabs -> {"off", "installing", "ready", "disposed", "reinstalling", "leftover"}]
  /\ poolPhase \in {"opening", "reading", "rejected", "closing"}

(* While a tab reads, and no handler is just being installed, nothing that   *)
(* would change the account leaves any page of the context, whatever its     *)
(* document hides in names, strings, comments and other operations; and the  *)
(* reads the dashboard depends on are never aborted, at any time.            *)
GuardReadsOnly ==
  seen # None =>
    /\ seen.reading /\ ~seen.installing /\ seen.mutates => ~seen.continued
    /\ seen.readsOnly => seen.continued

(* The same without the exception: "during extraction always".               *)
GuardAlwaysReadsOnly ==
  seen # None => (seen.reading /\ seen.mutates => ~seen.continued)
=============================================================================
