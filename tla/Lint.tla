-------------------------------- MODULE Lint --------------------------------
(* The lint command, which vendors run on the files of a release before    *)
(* they build it: each file on its own, its domains against what the       *)
(* vendor portal answers, request by request, if the API is configured.    *)
EXTENDS Releases

VARIABLES
    vendor, \* what the vendor has: [files, args, api, portal]
    lint    \* the command

NoLint == [step |-> "none", file |-> 0, channels |-> {}, found |-> {}, errors |-> FALSE,
           warnings |-> FALSE, outcome |-> "none"]

Args == vendor.args
File == vendor.files[Args[lint.file]]
Portal == vendor.portal

(* k8syaml.Unmarshal decodes the first document only.                      *)
LintedConfig(f) == IF f.docs = <<>> THEN NoConfig ELSE Decoded(f.docs[1])

(* Ports of unsupportedOverrides that are in the range of all installs are *)
(* warned of; text that does not parse is a warning, too.                  *)
PortWarnings(c) == {p \in c.ports : p = None \/ p \in 80..32767}

(* Mutant: a plugin is compared with the one before it.                    *)
EarlierLast(plugins, i) == {plugins[j] : j \in {k \in (i - 1)..(i - 1) : k > 0}}

(* validateVeleroPlugins: whether it finds an error.  A plugin without a   *)
(* name is in no comparison, and one without an image in none of images.   *)
Earlier(plugins, i) == {plugins[j] : j \in {k \in 1..(i - 1) : plugins[k].name # None}}
PluginErrors(plugins) ==
    {i \in DOMAIN plugins :
        LET p == plugins[i] IN
        \/ p.name = None
        \/ \E q \in Earlier(plugins, i) : q.name = p.name
        \/ p.image = None
        \/ \E q \in Earlier(plugins, i) : q.image = p.image
        \/ ~p.valid}

(* Mutant: the domain of the proxy is forgotten.                           *)
DomainErrorsButProxy(c, found) ==
    {use \in {"app", "registry"} :
        /\ c.domains[use] # None
        /\ c.domains[use] \notin found \cup {DefaultDomains[u] : u \in DOMAIN DefaultDomains}}

(* validateDomains against the domains of the portal and the defaults.     *)
DomainErrors(c, found) ==
    {use \in DOMAIN DefaultDomains :
        /\ c.domains[use] # None
        /\ c.domains[use] \notin found \cup {DefaultDomains[u] : u \in DOMAIN DefaultDomains}}

-----------------------------------------------------------------------------

(* The file is done, with or without an error; the others follow.          *)
FileDone(l, err) ==
    lint' = [l EXCEPT !.errors = @ \/ err, !.channels = {}, !.found = {},
                      !.file = IF l.file = Len(Args) THEN l.file ELSE l.file + 1,
                      !.step = IF l.file = Len(Args) THEN "end" ELSE "file"]

StartLint ==
    /\ lint.step = "none"
    /\ Args # <<>>
    /\ lint' = [lint EXCEPT !.step = "file", !.file = 1]
    /\ UNCHANGED vendor

(* ValidateFile up to the domains: it reads the file, checks the syntax of *)
(* all its documents, and ports and plugins of the first.                  *)
ValidateFile ==
    LET c == LintedConfig(File)
        checked == [lint EXCEPT !.errors = @ \/ PluginErrors(c.plugins) # {},
                                !.warnings = @ \/ PortWarnings(c) # {}]
    IN  /\ lint.step = "file"
        /\ IF ~File.readable \/ ~File.syntax THEN FileDone(lint, TRUE)
           ELSE IF vendor.api THEN lint' = [checked EXCEPT !.step = "channels"]
           ELSE FileDone(checked, FALSE)
        /\ UNCHANGED vendor

(* GetCustomDomains.  The first request lists the channels; if it fails,   *)
(* the other endpoint is asked.                                            *)
ListChannels ==
    /\ lint.step = "channels"
    /\ \/ lint' = [lint EXCEPT !.step = "releases", !.channels = DOMAIN Portal.channels]
       \/ lint' = [lint EXCEPT !.step = "hostnames"]
    /\ UNCHANGED vendor

(* One request per channel; a channel whose request fails is left out.     *)
ReadChannel ==
    /\ lint.step = "releases"
    /\ \E c \in lint.channels :
          \/ lint' = [lint EXCEPT !.channels = @ \ {c}, !.found = @ \cup Portal.channels[c]]
          \/ lint' = [lint EXCEPT !.channels = @ \ {c}]
    /\ UNCHANGED vendor

CompareDomains(found) == FileDone(lint, DomainErrors(LintedConfig(File), found) # {})

ChannelsRead ==
    /\ lint.step = "releases" /\ lint.channels = {}
    /\ IF lint.found # {} THEN CompareDomains(lint.found)
       ELSE lint' = [lint EXCEPT !.step = "hostnames"]
    /\ UNCHANGED vendor

(* An API without the endpoint is asked for the app; any other failure is  *)
(* an error of the file.                                                   *)
ReadHostnames ==
    /\ lint.step = "hostnames"
    /\ IF Portal.hasHostnames
       THEN CompareDomains(Portal.hostnames) \/ FileDone(lint, TRUE)
       ELSE lint' = [lint EXCEPT !.step = "app"] \/ FileDone(lint, TRUE)
    /\ UNCHANGED vendor

ReadApp ==
    /\ lint.step = "app"
    /\ CompareDomains(Portal.app) \/ FileDone(lint, TRUE)
    /\ UNCHANGED vendor

(* Only errors fail the command.                                           *)
EndLint ==
    /\ lint.step = "end"
    /\ lint' = [lint EXCEPT !.step = "done",
                            !.outcome = IF lint.errors THEN "failed" ELSE "passed"]
    /\ UNCHANGED vendor

LintNext ==
    \/ StartLint \/ ValidateFile \/ ListChannels \/ ReadChannel \/ ChannelsRead
    \/ ReadHostnames \/ ReadApp \/ EndLint
=============================================================================
