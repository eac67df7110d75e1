---------------------------- MODULE ProviderSecrets ----------------------------
(***************************************************************************)
(* The secrets an organisation entrusts to a model configuration and to a  *)
(* data source.  Both services read a row, merge the request into the      *)
(* copy, encrypt what is not yet encrypted and save the copy: a save       *)
(* writes every column in which the copy and the row differ, and inserts   *)
(* the row anew when it is gone.  One row of each kind is followed.        *)
(***************************************************************************)
EXTENDS Naturals, FiniteSets

CONSTANTS
  Editors,      \* requests under way at once
  Typed,        \* ordinary secrets somebody types in
  MaxRequests   \* bound: requests that reach a row

VARIABLES
  model,       \* the rows of model configurations: one or none
  datasource,  \* the rows of data sources: one or none
  request,     \* of each editor, the request between its read and its save
  requests,    \* requests made
  made,        \* the kinds of which the row was made
  latest,      \* ghost: the texts entered last, as the saves came
  overtaken    \* ghost: the kinds of which a save met another row than it read

vars == <<model, datasource, request, requests, made, latest, overtaken>>

Blank     == "blank"      \* no secret, or an empty one
Mask      == "********"   \* what the list of models shows of a secret
Lookalike == "ab:cd:12"   \* typed in plain, and of the form of a cipher text
Texts     == Typed \cup {Blank, Mask, Lookalike}
Entries   == Typed \cup {Blank, Lookalike}
Keep      == "keep"       \* a field the request leaves out (or sends as null)

Secret == [text : Texts, depth : 0..2]
Plain(t) == [text |-> t, depth |-> 0]
Hidden   == Plain(Mask)
Kept     == Plain(Keep)
NoConfig == Plain("no config")  \* a configuration without a provider's config

(***************************************************************************)
(* The encryption service: a value is taken for encrypted by its form.     *)
(***************************************************************************)
IsEncrypted(s) == s.depth > 0 \/ s.text = Lookalike

\* Mutant: a value is encrypted whatever its form.
EncryptedAgain(s) ==
  IF s.text = Blank \/ s.depth = 2 THEN s ELSE [s EXCEPT !.depth = @ + 1]

Encrypted(s) ==
  IF s.text = Blank \/ IsEncrypted(s) THEN s ELSE [s EXCEPT !.depth = @ + 1]

Unreadable == Plain("decryption failed")
Decrypted(s) ==
  IF ~IsEncrypted(s) THEN s
  ELSE IF s.depth = 0 THEN Unreadable
  ELSE [s EXCEPT !.depth = @ - 1]

(***************************************************************************)
(* Model configurations: a key, and the credentials in the provider's      *)
(* config (awsAccessKeyId, awsSecretAccessKey and credentials are treated  *)
(* alike, and one stands for the three).                                   *)
(***************************************************************************)
Fields(c) == {"apiKey"} \cup (IF c.credentials = NoConfig THEN {} ELSE {"credentials"})

EncryptSensitive(c) ==
  [f \in {"apiKey", "credentials"} |-> IF f \in Fields(c) THEN Encrypted(c[f]) ELSE c[f]]

DecryptSensitive(c) ==
  [f \in {"apiKey", "credentials"} |-> IF f \in Fields(c) THEN Decrypted(c[f]) ELSE c[f]]

\* A secret is shown as stars when it is stored encrypted, else by its first
\* and last letters.
MaskSecret(s) == IF IsEncrypted(s) THEN Hidden ELSE Plain("abcdef...wxyz")

MaskSensitive(c) ==
  [f \in {"apiKey", "credentials"} |->
    IF f \in Fields(c) /\ c[f].text # Blank THEN MaskSecret(c[f]) ELSE c[f]]

\* What the organisation's pages list, and what a worker is handed.
Listed == {MaskSensitive(row) : row \in model}
Opened == {DecryptSensitive(row) : row \in model}

(***************************************************************************)
(* What may be sent as a configuration.  The body must hold a key (null is *)
(* refused by the validation, an empty one is not); its config may be      *)
(* left out, may leave the credentials out, or give them.                  *)
(***************************************************************************)
ModelBodies ==
  [apiKey : {Plain(t) : t \in Texts},
   credentials : {NoConfig, Kept} \cup {Plain(t) : t \in Entries}]

\* The body of a request that leaves the configuration out, as a rename does.
NameOnly == [apiKey |-> Kept, credentials |-> NoConfig]

\* Mutant: credentials sent as null are stored as none.
MergeForUpdateNull(old, new) ==
  [apiKey |-> new.apiKey,
   credentials |->
     IF new.credentials = NoConfig THEN old.credentials
     ELSE IF new.credentials = Kept THEN Plain(Blank)
     ELSE new.credentials]

MergeForUpdate(old, new) ==
  [apiKey |-> new.apiKey,
   credentials |->
     IF new.credentials = NoConfig THEN old.credentials
     ELSE IF new.credentials # Kept THEN new.credentials
     ELSE IF old.credentials = NoConfig THEN Plain(Blank)
     ELSE old.credentials]

MergeForCreate(new) ==
  MergeForUpdate([apiKey |-> Plain(Blank), credentials |-> NoConfig], new)

(***************************************************************************)
(* Data sources: a source, an address, and a config of sections, each with *)
(* a secret of its own, the one its type of authentication names (a blank  *)
(* when it names none); a source reads and encrypts one of them.           *)
(***************************************************************************)
Sections == {"clickhouse", "authentication", "customApi"}
SectionOf == [clickhouse |-> "clickhouse", tempo |-> "authentication", custom_api |-> "customApi"]
Sources  == DOMAIN SectionOf
Configs  == UNION {[S -> Secret] : S \in SUBSET Sections}

\* Bodies name a section at most (none: the config is left out): a config of
\* several is as several requests.
SourceBodies ==
  [source : Sources \cup {Keep}, url : {Keep, "given", "none"},
   config : {<<>>} \cup UNION {[{s} -> {Plain(t) : t \in Entries}] : s \in Sections}]

EncryptConfig(source, config) ==
  [s \in DOMAIN config |->
    IF s = SectionOf[source] THEN Encrypted(config[s]) ELSE config[s]]

DecryptConfig(source, config) ==
  [s \in DOMAIN config |->
    IF s = SectionOf[source] THEN Decrypted(config[s]) ELSE config[s]]

\* The pages of one data source and of all of them show it decrypted, as its
\* repositories use it; the list of names leaves the config out.  Where a secret
\* cannot be opened the decryption throws, and the request ends in an error.
Shown(row) == DecryptConfig(row.source, row.config)

\* The section given replaces the one stored, whole.
MergeConfig(old, new) ==
  [s \in DOMAIN old \cup DOMAIN new |-> IF s \in DOMAIN new THEN new[s] ELSE old[s]]

\* What the validators of each source ask of the address and the config.
ValidSource(source, url, config) ==
  CASE source = "tempo"      -> url = "given"
    [] source = "clickhouse" -> url = "given" \/ "clickhouse" \in DOMAIN config
    [] source = "custom_api" -> TRUE

-----------------------------------------------------------------------------
Init ==
  /\ model = {} /\ datasource = {}
  /\ request = [e \in Editors |-> {}]
  /\ requests = 0
  /\ made = {}
  /\ latest = [apiKey |-> Blank, credentials |-> Blank, sections |-> <<>>]
  /\ overtaken = {}

Ask(e) == request[e] = {} /\ requests < MaxRequests /\ requests' = requests + 1

\* The texts of a model after a save whose body was b.
EnteredModel(b) ==
  [latest EXCEPT !.apiKey = b.apiKey.text,
                 !.credentials = IF b.credentials \in {NoConfig, Kept} THEN @
                                 ELSE b.credentials.text]

EnteredConfig(config) ==
  [latest EXCEPT !.sections =
    [s \in DOMAIN @ \cup DOMAIN config |->
       IF s \in DOMAIN config THEN config[s].text ELSE latest.sections[s]]]

(***************************************************************************)
(* POST of a model: validate, encrypt, save.                               *)
(***************************************************************************)
CreateModel(e, body) ==
  /\ Ask(e)
  /\ "model" \notin made
  /\ made' = made \cup {"model"}
  /\ model' = {EncryptSensitive(MergeForCreate(body))}
  /\ latest' = EnteredModel(body)
  /\ UNCHANGED <<datasource, request, overtaken>>

\* PUT and DELETE of a model: the row is read, or the request ends not found.
\* What else the request says matters at the save only, and is chosen there.
LoadModel(e, op) ==
  /\ Ask(e)
  /\ \E row \in model :
       request' = [request EXCEPT ![e] = {[kind |-> "model", op |-> op, copy |-> row]}]
  /\ UNCHANGED <<model, datasource, made, latest, overtaken>>

Under(e, kind, op) == {r \in request[e] : r.kind = kind /\ r.op = op}
Finish(e) == request' = [request EXCEPT ![e] = {}] /\ UNCHANGED <<requests, made>>

\* What PUT saves: a merge into the copy, encrypted, or the copy as it is.
Saved(copy, body) ==
  IF body = NameOnly THEN copy ELSE EncryptSensitive(MergeForUpdate(copy, body))

SaveModel(e, body) ==
  \E r \in Under(e, "model", "update") :
    /\ model' = {Saved(r.copy, body)}
    /\ latest' = IF body = NameOnly THEN latest ELSE EnteredModel(body)
    /\ overtaken' = IF model = {r.copy} THEN overtaken ELSE overtaken \cup {"model"}
    /\ Finish(e) /\ UNCHANGED datasource

RemoveModel(e) ==
  \E r \in Under(e, "model", "remove") :
    /\ model' = {}
    /\ Finish(e) /\ UNCHANGED <<datasource, latest, overtaken>>

(***************************************************************************)
(* Data sources.  The row carries two ghosts: unchecked, that its source   *)
(* was changed by a request the validators did not see; astray, the        *)
(* sections entered under a source that does not read them.                *)
(***************************************************************************)
Astray(source, row, config) ==
  (row \ {SectionOf[source]}) \cup (DOMAIN config \ {SectionOf[source]})

CreateSource(e, body) ==
  /\ Ask(e)
  /\ "source" \notin made
  /\ made' = made \cup {"source"}
  /\ body.source # Keep
  /\ LET config == body.config
         url    == IF body.url = Keep THEN "none" ELSE body.url
     IN
     /\ ValidSource(body.source, url, config)
     /\ url = "given" \/ SectionOf[body.source] \in DOMAIN config
     /\ datasource' = {[source |-> body.source, url |-> url,
                        config |-> EncryptConfig(body.source, config),
                        unchecked |-> FALSE,
                        astray |-> Astray(body.source, {}, config)]}
     /\ latest' = EnteredConfig(config)
  /\ UNCHANGED <<model, request, overtaken>>

LoadSource(e, op) ==
  /\ Ask(e)
  /\ \E row \in datasource :
       request' = [request EXCEPT ![e] = {[kind |-> "source", op |-> op, copy |-> row]}]
  /\ UNCHANGED <<model, datasource, made, latest, overtaken>>

\* What a request r, the copy it holds and its body, makes of the row.
SourceAfter(r) == IF r.body.source = Keep THEN r.copy.source ELSE r.body.source
UrlAfter(r)    == IF r.body.url = Keep THEN r.copy.url ELSE r.body.url
\* Only a request that gives an address or a config is validated.
Validated(r)   == r.body.url # Keep \/ r.body.config # <<>>

\* Mutant: the merged config is encrypted as the stored source asks.
ConfigAfterOldSource(r) ==
  IF r.body.config = <<>> THEN r.copy.config
  ELSE EncryptConfig(r.copy.source, MergeConfig(r.copy.config, r.body.config))

ConfigAfter(r) ==
  IF r.body.config = <<>> THEN r.copy.config
  ELSE EncryptConfig(SourceAfter(r), MergeConfig(r.copy.config, r.body.config))

\* Mutant: the address is validated as it is stored.
AcceptableOldUrl(r) ==
  Validated(r) =>
    ValidSource(SourceAfter(r), r.copy.url,
                IF r.body.config = <<>> THEN r.copy.config ELSE r.body.config)

Acceptable(r) ==
  Validated(r) =>
    ValidSource(SourceAfter(r), UrlAfter(r),
                IF r.body.config = <<>> THEN r.copy.config ELSE r.body.config)

\* The rest of PUT: validate, merge, encrypt, save the copy; or a refusal.
Calls(e, body) == {[copy |-> held.copy, body |-> body] : held \in Under(e, "source", "update")}

SaveSource(e, body) ==
  \E r \in Calls(e, body) :
    /\ Acceptable(r)
    /\ datasource' =
         {[source |-> SourceAfter(r), url |-> UrlAfter(r), config |-> ConfigAfter(r),
           unchecked |-> IF Validated(r) THEN FALSE
                         ELSE r.copy.unchecked \/ r.body.source # Keep,
           astray |-> IF r.body.config = <<>> THEN r.copy.astray
                      ELSE Astray(SourceAfter(r), r.copy.astray, r.body.config)]}
    /\ latest' = EnteredConfig(r.body.config)
    /\ overtaken' = IF datasource = {r.copy} THEN overtaken ELSE overtaken \cup {"source"}
    /\ Finish(e) /\ UNCHANGED model

RefuseSource(e, body) ==
  \E r \in Calls(e, body) :
    /\ ~Acceptable(r)
    /\ Finish(e) /\ UNCHANGED <<model, datasource, latest, overtaken>>

RemoveSource(e) ==
  \E r \in Under(e, "source", "remove") :
    /\ datasource' = {}
    /\ Finish(e) /\ UNCHANGED <<model, latest, overtaken>>

\* Only who has no request under way makes one.
Next ==
  \E e \in Editors :
    \/ /\ request[e] = {} /\ requests < MaxRequests
       /\ \/ \E b \in ModelBodies : CreateModel(e, b)
          \/ \E b \in SourceBodies : CreateSource(e, b)
          \/ \E op \in {"update", "remove"} : LoadModel(e, op) \/ LoadSource(e, op)
    \/ /\ request[e] # {}
       /\ \/ \E b \in ModelBodies \cup {NameOnly} : SaveModel(e, b)
          \/ \E b \in SourceBodies : SaveSource(e, b) \/ RefuseSource(e, b)
          \/ RemoveModel(e) \/ RemoveSource(e)

Spec == Init /\ [][Next]_vars

-----------------------------------------------------------------------------
ModelRows == [apiKey : Secret, credentials : Secret \cup {NoConfig}]
SourceRowsWith(configs) ==
  [source : Sources, url : {"given", "none"}, config : configs, unchecked : BOOLEAN,
   astray : SUBSET Sections]
SourceRows == SourceRowsWith(Configs)

TypeOK ==
  /\ model \subseteq ModelRows /\ Cardinality(model) <= 1
  /\ \A row \in datasource : \E S \in SUBSET Sections : row \in SourceRowsWith([S -> Secret])
  /\ Cardinality(datasource) <= 1
  /\ requests \in 0..MaxRequests /\ made \subseteq {"model", "source"}
  /\ overtaken \subseteq {"model", "source"}

(***************************************************************************)
(* A model's secrets rest encrypted, once: a row that goes through any     *)
(* number of merges with itself is never encrypted again, and what does    *)
(* rest in plain is empty or was taken for a cipher text.                  *)
(***************************************************************************)
ModelsRestEncrypted ==
  \A row \in model : \A f \in Fields(row) :
    row[f].depth = IF row[f].text \in {Blank, Lookalike} THEN 0 ELSE 1

(***************************************************************************)
(* So does the secret of the section a data source reads, whatever source  *)
(* the row had before, unless the section was entered while the row had    *)
(* another source: a change of source alone does not encrypt it.           *)
(***************************************************************************)
SectionsRestEncrypted ==
  \A row \in datasource : \A s \in DOMAIN row.config \ row.astray :
    row.config[s].depth = IF row.config[s].text \in {Blank, Lookalike} THEN 0 ELSE 1

(***************************************************************************)
(* What a worker opens is what was entered last, unless a save was         *)
(* computed from a row that another one had meanwhile replaced; a secret   *)
(* of the form of a cipher text, of a model or of a data source, is stored *)
(* as it is and cannot be opened.                                          *)
(***************************************************************************)
Readable(text) == IF text = Lookalike THEN Unreadable ELSE Plain(text)

OpensAsEntered ==
  /\ "model" \notin overtaken =>
       \A c \in Opened : \A f \in Fields(c) : c[f] = Readable(latest[f])
  /\ "source" \notin overtaken =>
       \A row \in datasource :
         LET s == SectionOf[row.source]
         IN s \in DOMAIN row.config =>
              Shown(row)[s] = Readable(latest.sections[s])

\* The lists of model configurations (not the pages of data sources, which show
\* what is stored decrypted) show stars only, whatever way the row came to be.
ListsHideSecrets ==
  \A c \in Listed : \A f \in Fields(c) : c[f] \in {Hidden, Plain(Blank)}

(***************************************************************************)
(* A data source has what its source needs, unless the source was changed  *)
(* alone (such a request is not validated).  A save of a stale copy does   *)
(* not break it: the copy was validated as a whole.                        *)
(***************************************************************************)
SourcesAreServed ==
  \A row \in datasource :
    ~row.unchecked => ValidSource(row.source, row.url, row.config)

SecretSafety ==
  /\ TypeOK /\ ModelsRestEncrypted /\ SectionsRestEncrypted /\ OpensAsEntered
  /\ ListsHideSecrets /\ SourcesAreServed
=============================================================================
