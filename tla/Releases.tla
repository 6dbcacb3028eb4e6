------------------------------ MODULE Releases ------------------------------
(* The release that is embedded in the binary: a tar of files, parsed when *)
(* the binary starts.  A document stands for its text; which document is   *)
(* what is decided by looking for substrings, and only the first document  *)
(* of a text is ever decoded.                                              *)
EXTENDS Networks, SequencesExt

Kots == {"application", "app-config", "config-values"}
Kinds == Kots \cup {"host-preflight", "kurl-preflight", "backup", "restore", "ec-config",
                    "helm-chart", "channel-release"}

(* ReleaseData; "broken" makes the binary panic when it starts.            *)
EmptyRelease ==
    [application |-> None, appConfig |-> None, preflights |-> <<>>, ecConfig |-> None,
     channel |-> None, backup |-> None, restore |-> None, charts |-> <<>>, archives |-> 0,
     broken |-> FALSE]

(* processDocument: the channel release is told by a comment, and chart    *)
(* archives by their name.                                                 *)
ProcessDocument(r, f) ==
    LET marked == {i \in DOMAIN f.docs : f.docs[i].kind = "channel-release"}
    IN  CASE marked # {} -> [r EXCEPT !.channel = f.docs[1]]
          [] marked = {} /\ f.name = "archive" -> [r EXCEPT !.archives = @ + 1]
          [] OTHER -> r

(* processYAMLDocument on a text that holds the documents of a sequence:   *)
(* the first group of kinds found anywhere in it decides.                  *)
ProcessYAMLDocument(r, text) ==
    LET kinds == {text[i].kind : i \in DOMAIN text}
        Has(group) == kinds \cap group # {}
    IN  IF text = <<>> THEN r
        ELSE IF Has({"application"}) THEN [r EXCEPT !.application = text[1]]
        ELSE IF Has(Kots) THEN [r EXCEPT !.appConfig = text[1]]   \* kind: ConfigValues, too
        ELSE IF Has({"kurl-preflight"}) THEN r
        ELSE IF Has({"host-preflight"})
             THEN IF text[1].kind = "host-preflight"
                  THEN [r EXCEPT !.preflights = Append(@, text[1])]
                  ELSE [r EXCEPT !.broken = TRUE]
        ELSE IF Has({"ec-config"}) THEN [r EXCEPT !.ecConfig = text[1]]
        ELSE IF Has({"backup"}) THEN [r EXCEPT !.backup = text[1]]
        ELSE IF Has({"restore"}) THEN [r EXCEPT !.restore = text[1]]
        ELSE IF Has({"helm-chart"}) THEN [r EXCEPT !.charts = Append(@, text)]
        ELSE r

(* Mutant: texts of several documents are not split.                       *)
DocumentsUnsplit(f) == <<f.docs>>

(* A file is split into its documents unless its name starts with a dot    *)
(* (as the names in a tar of "." do), has another extension, or the        *)
(* splitter fails on it; then its whole text is one document.              *)
Documents(f) ==
    IF f.name = "yaml" /\ f.splits THEN [i \in DOMAIN f.docs |-> <<f.docs[i]>>]
    ELSE <<f.docs>>

ProcessTexts(r, texts) == FoldLeft(ProcessYAMLDocument, r, texts)
Process(r, f) ==
    IF r.broken THEN r ELSE ProcessTexts(ProcessDocument(r, f), Documents(f))

ParseRelease(files) == FoldLeft(Process, EmptyRelease, files)

-----------------------------------------------------------------------------

NoDomains == [app |-> None, proxy |-> None, registry |-> None]
NoConfig == [domains |-> NoDomains, plugins |-> <<>>, ports |-> {}, values |-> TRUE,
             overrides |-> None, charts |-> {}]
NoChannel == [app |-> None, channel |-> None, version |-> None, airgap |-> FALSE,
              domains |-> NoDomains]

(* GetEmbeddedClusterConfig: what another kind of document decodes to as a *)
(* Config has none of its fields.                                          *)
Decoded(doc) == IF doc.kind = "ec-config" THEN doc.config ELSE NoConfig
HasConfig(r) == r.ecConfig # None
Config(r) == IF HasConfig(r) THEN Decoded(r.ecConfig) ELSE NoConfig

ChannelRelease(r) ==
    IF r.channel = None THEN None
    ELSE IF r.channel.kind = "channel-release" THEN r.channel.config ELSE NoChannel

DefaultDomains == [app |-> "replicated.app", proxy |-> "proxy.replicated.com",
                   registry |-> "registry.replicated.com"]

(* GetDomains: the config's, the channel's, the default, for each use.     *)
GetDomains(r) ==
    [use \in DOMAIN DefaultDomains |->
        IF Config(r).domains[use] # None THEN Config(r).domains[use]
        ELSE IF ChannelRelease(r) # None /\ ChannelRelease(r).domains[use] # None
             THEN ChannelRelease(r).domains[use]
             ELSE DefaultDomains[use]]

(* ValidateECConfig: the values of every chart are YAML.                   *)
ValidateECConfig(r) == HasConfig(r) => Config(r).values

-----------------------------------------------------------------------------
(* What a vendor may rely on: in files that are named and written as they  *)
(* should be, and with one document of each kind that is held once, every  *)
(* document is found in the release.                                       *)

AllDocuments(files) == UNION {{files[i].docs[j] : j \in DOMAIN files[i].docs} : i \in DOMAIN files}
HeldOnce == Kinds \ {"config-values", "kurl-preflight", "host-preflight", "helm-chart"}
WellFormed(files) ==
    /\ \A i \in DOMAIN files : files[i].name = "yaml" /\ files[i].splits
    /\ \A i \in DOMAIN files : \A j \in DOMAIN files[i].docs :
          files[i].docs[j].kind = "channel-release" => j = 1
    /\ \A d \in AllDocuments(files) : d.kind # "config-values"
    /\ \A d, e \in AllDocuments(files) : d.kind = e.kind /\ d.kind \in HeldOnce => d = e
HeldIn(r, d) ==
    CASE d.kind = "application" -> r.application = d
      [] d.kind = "app-config" -> r.appConfig = d
      [] d.kind = "ec-config" -> r.ecConfig = d
      [] d.kind = "channel-release" -> r.channel = d
      [] d.kind = "backup" -> r.backup = d
      [] d.kind = "restore" -> r.restore = d
      [] d.kind = "host-preflight" -> \E i \in DOMAIN r.preflights : r.preflights[i] = d
      [] d.kind = "helm-chart" -> \E i \in DOMAIN r.charts : r.charts[i] = <<d>>
      [] OTHER -> TRUE
=============================================================================
