----------------------------- MODULE MCPlatform -----------------------------
(***************************************************************************)
(* The parts of the platform in one run: a behaviour takes one of them.    *)
(* The variables of the others are None, those of the gateway idle.        *)
(***************************************************************************)
EXTENDS LLMGateway, ChatTurns, TurnStream, SessionReports, SessionAttachments,
        OpenVikingProcess, LLMConfigs, RepoJobs, LoginSessions, OpencodeServer,
        ReportPreparation, OpenVikingTuning, OpenVikingModels, TLC

VARIABLE part
platform == <<vars, chatVars, streamVars, reportVars, fileVars, procVars, configVars,
              repoVars, loginVars, serverVars, prepVars, tuningVars, modelVars, part>>

\* What opencode sends in a turn with the given messages of parts.
PartEvents(m, p, text) ==
    <<Event("part", m, p, <<>>)>>
    \o [i \in DOMAIN text |-> Event("delta", m, p, <<text[i]>>)]
    \o <<Event("part", m, p, text)>>
MessageEvents(answer, m) ==
    FlattenSeq([p \in DOMAIN answer[m] |-> PartEvents(m, p, answer[m][p])])
    \o <<Event(IF m = Len(answer) THEN "finish" ELSE "toolcalls", m, 0, <<>>)>>
TurnEvents(answer) ==
    <<Event("user", UserMessage, 0, <<>>), Event("part", UserMessage, 1, <<Asked>>)>>
    \o FlattenSeq([m \in DOMAIN answer |-> MessageEvents(answer, m)])

\* One message of two parts, two messages, and one that says nothing after a
\* tool call; each may end at any point.
TurnAnswers == { << << <<1, 2>>, <<3>> >> >>, << << <<1>> >>, << <<2>> >> >>,
                 << << <<1>> >>, << <<>> >> >> }
TurnScripts ==
    UNION {{Append(SubSeq(TurnEvents(a), 1, n), Event(end, 0, 0, <<>>)) :
               n \in 2 .. Len(TurnEvents(a)), end \in {"idle", "error"}} : a \in TurnAnswers}

\* One parameter is set, set beyond its range, set twice at once; two are set.
TuneLists ==
    LET s == CHOOSE k \in ServerKeys : TRUE
        a == CHOOSE k \in AppKeys : TRUE
        Wish(k, v) == [key |-> k, value |-> v]
    IN {<<Wish(s, 2)>>, <<Wish(s, 1)>>, <<Wish(a, 1)>>, <<Wish(a, 2)>>, <<Wish(a, 3)>>,
        <<Wish(a, 2), Wish(a, 1)>>, <<Wish(s, 2), Wish(a, 2)>>}

PlatformInit ==
    /\ part \in {"gateway", "chat", "stream", "reports", "files", "server", "configs",
                "repos", "logins", "opencode", "drafts", "tuning", "models"}
    /\ Init
    /\ IF part = "chat" THEN ChatInit
       ELSE alive = None /\ rows = None /\ ask = None /\ serial = None /\ title = None /\
            titling = None
    /\ IF part = "stream" THEN StreamInit
       ELSE script = None /\ sent = None /\ link = None /\ read = None /\ turn = None /\
            out = None /\ how = None
    /\ IF part = "reports" THEN ReportsInit
       ELSE reports = None /\ editing = None /\ orderly = None
    /\ IF part = "files" THEN FilesInit
       ELSE folder = None /\ stored = None /\ files = None /\ manifest = None /\ task = None /\
            inTurn = None
    /\ IF part = "server" THEN ProcInit
       ELSE os = None /\ port = None /\ mgr = None /\ setting = None /\ admin = None /\ app = None
    /\ IF part = "configs" THEN ConfigsInit
       ELSE configs = None /\ work = None /\ apart = None
    /\ IF part = "repos" THEN RepoInit
       ELSE pushed = None /\ repo = None /\ bare = None /\ cloning = None /\ enqueue = None /\
            deletion = None /\ trees = None /\ asks = None /\ symbols = None /\ lone = None /\
            lost = None
    /\ IF part = "logins" THEN LoginsInit
       ELSE accounts = None /\ logins = None /\ cookies = None /\ owners = None /\ doing = None /\
            set = None /\ crossed = None /\ strays = None
    /\ IF part = "opencode" THEN ServerInit
       ELSE srv = None /\ ocm = None /\ caller = None /\ life = None
    /\ IF part = "drafts" THEN PrepInit
       ELSE talk = None /\ topics = None /\ posts = None /\ drafting = None /\ answers = None /\
            calm = None
    /\ IF part = "tuning" THEN TuningInit
       ELSE tuneRows = None /\ inMemory = None /\ served = None /\ tuners = None /\
            reloaded = None /\ alone = None
    /\ IF part = "models" THEN ModelsInit
       ELSE chosen = None /\ vision = None /\ conf = None /\ serving = None /\ vectors = None /\
            switchers = None /\ smooth = None

PlatformNext ==
    /\ part' = part
    /\ \/ /\ part = "gateway" /\ Next
          /\ UNCHANGED <<chatVars, streamVars, reportVars, fileVars, procVars, configVars,
                          repoVars, loginVars, serverVars, prepVars, tuningVars, modelVars>>
       \/ /\ part = "chat" /\ ChatNext
          /\ UNCHANGED <<vars, streamVars, reportVars, fileVars, procVars, configVars, repoVars,
                          loginVars, serverVars, prepVars, tuningVars, modelVars>>
       \/ /\ part = "stream" /\ StreamNext
          /\ UNCHANGED <<vars, chatVars, reportVars, fileVars, procVars, configVars, repoVars,
                          loginVars, serverVars, prepVars, tuningVars, modelVars>>
       \/ /\ part = "reports" /\ ReportsNext
          /\ UNCHANGED <<vars, chatVars, streamVars, fileVars, procVars, configVars, repoVars,
                          loginVars, serverVars, prepVars, tuningVars, modelVars>>
       \/ /\ part = "files" /\ FilesNext
          /\ UNCHANGED <<vars, chatVars, streamVars, reportVars, procVars, configVars, repoVars,
                          loginVars, serverVars, prepVars, tuningVars, modelVars>>
       \/ /\ part = "server" /\ ProcNext
          /\ UNCHANGED <<vars, chatVars, streamVars, reportVars, fileVars, configVars, repoVars,
                          loginVars, serverVars, prepVars, tuningVars, modelVars>>
       \/ /\ part = "configs" /\ ConfigsNext
          /\ UNCHANGED <<vars, chatVars, streamVars, reportVars, fileVars, procVars, repoVars,
                          loginVars, serverVars, prepVars, tuningVars, modelVars>>
       \/ /\ part = "repos" /\ RepoNext
          /\ UNCHANGED <<vars, chatVars, streamVars, reportVars, fileVars, procVars, configVars,
                          loginVars, serverVars, prepVars, tuningVars, modelVars>>
       \/ /\ part = "logins" /\ LoginsNext
          /\ UNCHANGED <<vars, chatVars, streamVars, reportVars, fileVars, procVars, configVars,
                          repoVars, serverVars, prepVars, tuningVars, modelVars>>
       \/ /\ part = "opencode" /\ ServerNext
          /\ UNCHANGED <<vars, chatVars, streamVars, reportVars, fileVars, procVars, configVars,
                          repoVars, loginVars, prepVars, tuningVars, modelVars>>
       \/ /\ part = "drafts" /\ PrepNext
          /\ UNCHANGED <<vars, chatVars, streamVars, reportVars, fileVars, procVars, configVars,
                          repoVars, loginVars, serverVars, tuningVars, modelVars>>
       \/ /\ part = "tuning" /\ TuningNext
          /\ UNCHANGED <<vars, chatVars, streamVars, reportVars, fileVars, procVars, configVars,
                          repoVars, loginVars, serverVars, prepVars, modelVars>>
       \/ /\ part = "models" /\ ModelsNext
          /\ UNCHANGED <<vars, chatVars, streamVars, reportVars, fileVars, procVars, configVars,
                          repoVars, loginVars, serverVars, prepVars, tuningVars>>
PlatformSpec == PlatformInit /\ [][PlatformNext]_platform

\* The turn alone.
StreamSpec == PlatformInit /\ part = "stream" /\ [][PlatformNext]_platform

\* No property names one of these values; parts share them as values of their own kinds.
Symmetry == Permutations(Configs) \cup Permutations(Pids)

-----------------------------------------------------------------------------
\* The parts keep their shape, with what each says of it beyond types: a request
\* that is over holds nothing, rows do not outlive what they belong to, caches and
\* values stay within their limits.
PlatformTypeOK ==
    /\ part = "chat" => ChatTypeOK
    /\ part = "stream" => StreamTypeOK
    /\ part = "reports" => ReportsTypeOK
    /\ part = "files" => FilesTypeOK
    /\ part = "server" => ProcTypeOK
    /\ part = "configs" => ConfigsTypeOK
    /\ part = "repos" => RepoTypeOK
    /\ part = "logins" => LoginsTypeOK
    /\ part = "opencode" => ServerTypeOK
    /\ part = "drafts" => PrepTypeOK
    /\ part = "tuning" => TuningTypeOK
    /\ part = "models" => ModelsTypeOK

\* What a session shows of its history is true to what was said, and its title to
\* what the user called it (ChatTurns).
HistoryIsTrue ==
    /\ [](part = "chat" => RepliesFollow /\ SerialHistoryIsWhole)
    /\ [][part = "chat" => ManualTitleStays]_chatVars

\* The user sees what opencode said: each word once and in its place, and all of it
\* where the turn ends by an event or a poll (TurnStream).
AnswerIsTrue == part = "stream" => SpokenOnceInOrder /\ NothingIsMissed /\ PolledIsWhole

\* There is one report of a session, and it says verified only with the evidence
\* for it (SessionReports).
ReportIsSound == part = "reports" => OneReportPerSession /\ VerifiedMeetsGate

\* Neither the list of attachments nor the manifest names a file that is not there
\* (SessionAttachments).
ListsAreTrue == part = "files" => RowHasFile /\ ListedIsThere

\* There is one OpenViking server, with the active setting and a fresh index,
\* launched only where none is well and gone with CodeAsk (OpenVikingProcess).
ServerIsKept ==
    /\ [](part = "server" => OneChild /\ OwnServerRunsSetting /\ OwnServerIsFresh)
    /\ [][part = "server" => NoRival /\ StopIsThorough]_procVars

\* Defaults and outcomes of tests are what the last requests made them (LLMConfigs).
ConfigsAreSound ==
    /\ [](part = "configs" => DefaultsMakeWay /\ AdapterAgrees /\ OutcomeIsOfContent)
    /\ [][part = "configs" => DefaultStays]_configVars

\* The row of a repository, its clone on the disk and what is searched agree, and
\* nothing waits or stays for ever (RepoJobs).
RepoIsSound ==
    part = "repos" => ReadyIsCloned /\ UnsettledHasJob /\ NothingIsLeft /\ AnswerIsOfCommit

\* A login is as good as the password behind it, and takes its chats along
\* (LoginSessions).
LoginIsSound ==
    /\ [](part = "logins" => SessionIsOfPassword /\ ChatsFollowLogin)
    /\ [][part = "logins" => OwnSessionStays]_loginVars

\* Chats are answered by the one opencode server of this CodeAsk, which finds a
\* port that is free (OpencodeServer).
ServerIsOwn ==
    /\ [](part = "opencode" => OneOwnServer /\ OnlyOwnAnswers)
    /\ [][part = "opencode" => EveryPortIsTried]_serverVars

\* Who asks for a draft is told in the end how it went, once, with a draft of all
\* that was said (ReportPreparation).
DraftIsDelivered ==
    /\ [](part = "drafts" => DraftCoversRequest /\ RunningIsWorkedOn)
    /\ [][part = "drafts" => SettledStays]_prepVars

\* The history of a parameter, the server and the settings in memory agree once a
\* request is over (OpenVikingTuning).
TuningIsSound == part = "tuning" => HistoryIsChain /\ ServerRunsNewest /\ ReloadedIsNewest

\* Rows, file, server and vectors are of one model once a switch is over, and no
\* key is lost on the way (OpenVikingModels).
ModelsAreSound == part = "models" => KeyIsKept /\ NewestIsServed /\ VectorsAreOfModel
=============================================================================
