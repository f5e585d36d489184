---------------------------- MODULE MCDeployment ----------------------------
(* Instances of Deployment: the environments of the documents with up to two *)
(* variables changed, each in os.environ or in one of two directories.       *)
EXTENDS Deployment, TLC

CONSTANTS w1, w2, a1, m1, here, there, appPg, strong, weak

\* docs/deployment.md:40, and .env.example for local work.
Nothing == [k \in {"debug", "open", "cors", "tables", "secret", "app", "erp"} |-> Unset]
Production == [Nothing EXCEPT !.cors = "origins", !.tables = "ok", !.secret = strong,
                              !.app = appPg, !.erp = LocalErp]
Local == [Nothing EXCEPT !.debug = "true", !.tables = "ok"]

Options(k) == CASE k \in {"debug", "open"} -> {"true", Unset}
                [] k = "cors" -> {"origins", "*"}
                [] k = "tables" -> {"ok", "unclassified", "personal", Unset}
                [] k = "secret" -> {strong, weak, Blank, Unset}
                [] k \in {"app", "erp"} -> {appPg, LocalApp, LocalErp, Blank, Unset}

Changed(e) == {[e EXCEPT !.os[k] = v] : <<k, v>> \in UNION {{k} \X Options(k) : k \in DOMAIN Nothing}}
              \cup UNION {{[e EXCEPT !.cwd[d][k] = v] : v \in Options(k)} :
                            <<d, k>> \in Dirs \X {"debug", "secret", "app", "erp"}}
Alone(o) == [os |-> o, cwd |-> [d \in Dirs |-> Nothing]]
Starts == [p \in Processes |-> IF p = a1 THEN there ELSE here]
MCSymmetry == Permutations(Workers)
InDebug(e) == "true" \in {e.os.debug} \cup {e.cwd[d].debug : d \in Dirs}
\* Local work in one directory on SQLite; DEBUG on PostgreSQL; production with one
\* variable changed, and with two, one of them at least in os.environ: a .env alone changes
\* nothing there that os.environ sets.
MCEnvironments ==
  {[Alone(Nothing) EXCEPT !.cwd[here] = Local]} \cup
  {Alone([Local EXCEPT !.app = appPg, !.tables = t]) : t \in Options("tables")} \cup
  {e \in Changed(Alone(Production)) : InDebug(e) => e.os.app = appPg} \cup
  {e \in UNION {Changed(d) : d \in Changed(Alone(Production))} :
     ~InDebug(e) /\ e.os # Production /\ e.os.app \in {appPg, Unset, Blank}}
=============================================================================
