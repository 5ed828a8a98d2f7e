--------------------------- MODULE Configuration ----------------------------
(***************************************************************************)
(* The configuration file of contour: the YAML text that Config.h writes   *)
(* from a configuration by filling the documented templates of             *)
(* ConfigDocumentation.h, and the reader of Config.cpp that loads it back. *)
(* A section is a template; its keys are the placeholders in the order of  *)
(* the text, and the values are passed by position.                        *)
(***************************************************************************)
EXTENDS Naturals, Sequences, TLC

VARIABLE conf     \* the file being loaded and the configuration it gave

(***************************************************************************)
(* Templates (ConfigDocumentation.h): section -> placeholders in order.    *)
(***************************************************************************)
Single(sections) == [s \in sections |-> <<s>>]
ShellTemplate == [shell |-> <<"shell", "arguments", "initial_working_directory">>]
                 @@ Single({"escape_sandbox"})
SshTemplate == [ssh |-> <<>>]      \* commented out
WindowTemplates ==
  Single({"maximized", "fullscreen", "show_title_bar", "size_indicator_on_resize", "search_mode_switch",
          "insert_after_yank", "copy_last_mark_range_offset", "terminal_id"})
  @@ [mouse |-> <<"hide_while_typing">>, margins |-> <<"horizontal", "vertical">>,
      terminal_size |-> <<"columns", "lines">>]
HistoryTemplates == [history |-> <<"limit", "auto_scroll_on_update", "scroll_multiplier">>,
                     scrollbar |-> <<"position", "hide_in_alt_screen">>]
FontTemplate ==
  [font |-> <<"size", "locator", "text_shaping/engine", "builtin_box_drawing", "render_mode",
              "strict_spacing", "regular/family", "regular/weight", "regular/slant",
              "regular/features", "emoji">>]
PermissionTemplates ==
  [permissions |-> <<"capture_buffer", "change_font", "display_host_writable_statusline">>]
  @@ Single({"draw_bold_text_with_bright_colors", "colors", "vi_mode_scrolloff"})
CursorSections == {"cursor", "normal_mode/cursor", "visual_mode/cursor"}
CursorTemplates == [s \in CursorSections |-> <<"shape", "blinking", "blinking_interval">>]
StatusTemplates ==
  [status_line |-> <<"display", "position", "sync_to_window_title", "indicator/left",
                     "indicator/middle", "indicator/right">>,
   background |-> <<"opacity", "blur">>, bell |-> <<"sound", "volume">>]
  @@ Single({"slow_scrolling_time", "vi_mode_highlight_timeout",
             "highlight_word_and_matches_on_double_click"})
GlobalTemplates ==
  [renderer |-> <<"backend", "tile_direct_mapping", "tile_hashtable_slots", "tile_cache_count">>]
  @@ Single({"live_config", "platform_plugin", "read_buffer_size", "pty_buffer_size",
             "reflow_on_resize", "word_delimiters", "extended_word_delimiters",
             "bypass_mouse_protocol_modifier", "on_mouse_select"})
ImageTemplates ==
  [images |-> <<"sixel_scrolling", "sixel_register_count", "max_width", "max_height">>]
  @@ Single({"mouse_block_selection_modifier", "spawn_new_process", "early_exit_threshold",
             "default_profile"})
FourColors == <<"foreground", "foreground_alpha", "background", "background_alpha">>
HighlightTemplates ==
  [s \in {"vi_mode_highlight", "vi_mode_cursorline", "selection", "search_highlight",
          "search_highlight_focused", "word_highlight_current", "word_highlight_other"} |-> FourColors]
EightColors == <<"black", "red", "green", "yellow", "blue", "magenta", "cyan", "white">>
\* The template of the dim colours is commented out.
SchemeTemplates ==
  [default |-> <<"background", "foreground", "bright_foreground", "dimmed_foreground">>,
   indicator_statusline |-> <<"default/foreground", "default/background", "inactive/foreground",
                              "inactive/background">>,
   input_method_editor |-> <<"foreground", "background">>, normal |-> EightColors, bright |-> EightColors]
HyperlinkTemplate == [hyperlink_decoration |-> <<"normal", "hover">>]
OptionTemplate == Single({"option_as_alt"})

ProfileTemplates == ShellTemplate @@ SshTemplate @@ WindowTemplates @@ HistoryTemplates @@ FontTemplate
  @@ PermissionTemplates @@ CursorTemplates @@ StatusTemplates @@ HyperlinkTemplate @@ OptionTemplate
Templates == ProfileTemplates @@ GlobalTemplates @@ ImageTemplates @@ HighlightTemplates @@ SchemeTemplates
Sections == DOMAIN Templates

\* The examples of the web documentation: section -> keys shown.
WebShell == [shell |-> <<"shell", "arguments">>, escape_sandbox |-> <<"escape_sandbox">>]
WebSsh == [ssh |-> <<"host", "port", "user", "private_key", "public_key", "known_hosts", "forward_agent">>]
WebWindow ==
  [margins |-> <<"horizontal", "vertical">>, bell |-> <<"sound", "alert">>,
   terminal_id |-> <<"terminal_id">>, terminal_size |-> <<"columns", "lines">>]
WebHistory ==
  [history |-> <<"limit", "auto_scroll_on_update", "scroll_multiplier">>,
   scrollbar |-> <<"position", "hide_in_alt_screen">>, mouse |-> <<"hide_while_typing">>,
   permissions |-> <<"change_font", "capture_buffer", "display_host_writable_statusline">>]
  @@ Single({"highlight_word_and_matches_on_double_click"})
WebFont ==
  [font |-> <<"size", "dpi_scale", "locator", "text_shaping/engine", "builtin_box_drawing", "render_mode",
              "strict_spacing", "regular/family", "regular/weight", "regular/slant", "regular/features",
              "emoji">>] @@ Single({"draw_bold_text_with_bright_colors"})
WebModes == CursorTemplates @@ Single({"vi_mode_highlight_timeout", "vi_mode_scrolloff"})
WebStatus == [status_line |-> <<"display", "position", "sync_to_window_title">>,
              background |-> <<"opacity", "blur">>, colors |-> <<"colors">>,
              hyperlink_decoration |-> <<"normal", "hover">>]
WebFlags == Single({"option_as_alt", "fullscreen", "show_title_bar", "size_indicator_on_resize",
                    "search_mode_switch", "insert_after_yank", "copy_last_mark_range_offset",
                    "slow_scrolling_time"})
WebExamples == WebShell @@ WebSsh @@ WebWindow @@ WebHistory @@ WebFont @@ WebModes @@ WebStatus @@ WebFlags

\* Values a template fixes in its text.
FixedText == [bell |-> [alert |-> "default"]]

(***************************************************************************)
(* Writer (Config.h): the members passed to the template, in order.  A name*)
(* that is no member is passed as text.                                    *)
(***************************************************************************)
FormatFonts == [font |-> <<"size", "locator", "engine", "builtin_box_drawing", "render_mode", "other",
                           "family", "weight", "slant", "features", "emoji">>]
FormatProfile ==
  [shell |-> <<"shell", "arguments", "initial_working_directory">>,
   terminal_size |-> <<"columns", "lines">>, bell |-> <<"sound", "volume", "alert">>,
   margins |-> <<"horizontal", "vertical">>,
   history |-> <<"limit", "auto_scroll_on_update", "scroll_multiplier">>,
   scrollbar |-> <<"position", "hide_in_alt_screen">>, mouse |-> <<"hide_while_typing">>]
FormatGlobal ==
  [renderer |-> <<"backend", "tile_direct_mapping", "tile_hashtable_slots", "tile_cache_count">>,
   images |-> <<"sixel_scrolling", "sixel_register_count", "max_width", "max_height">>]
FormatStatus ==
  [status_line |-> <<"display", "position", "sync_to_window_title", "left", "middle", "right">>,
   background |-> <<"opacity", "blur">>, hyperlink_decoration |-> <<"normal", "hover">>,
   permissions |-> <<"capture_buffer", "change_font", "display_host_writable_statusline">>]
FormatCursor == [s \in CursorSections |-> <<"shape", "blinking", "blinking_interval">>]
FormatScheme ==
  [s \in DOMAIN HighlightTemplates |-> FourColors]
  @@ [SchemeTemplates EXCEPT !.indicator_statusline =
        <<"insert/foreground", "insert/background", "inactive/foreground", "inactive/background">>]
Format == FormatFonts @@ FormatProfile @@ FormatGlobal @@ FormatStatus @@ FormatCursor @@ FormatScheme
Arguments(s) == IF s \in DOMAIN Format THEN Format[s] ELSE Templates[s]

(***************************************************************************)
(* Reader (Config.cpp): for each section the leaves in the order they are  *)
(* read, <<key, member, kind>>.  A kind says how the text is converted.    *)
(***************************************************************************)
Leaf(kind, key) == <<key, key, kind>>
Leaves(kind, keys) == [i \in 1 .. Len(keys) |-> Leaf(kind, keys[i])]
Scalars(sections) == [s \in sections |-> <<Leaf("scalar", s)>>]
Texts(sections) == [s \in sections |-> <<Leaf("text", s)>>]
ReadShell == [shell |-> <<Leaf("text", "shell"), Leaf("append", "arguments"),
                          Leaf("text", "initial_working_directory")>>]
ReadSsh == [ssh |-> <<Leaf("text", "host"), Leaf("scalar", "port"), Leaf("text", "user"),
                      Leaf("text", "private_key"), Leaf("text", "public_key"),
                      <<"known_hosts", "public_key", "text">>, Leaf("scalar", "forward_agent")>>]
ReadWindow ==
  Scalars({"escape_sandbox", "maximized", "fullscreen", "show_title_bar", "size_indicator_on_resize",
           "search_mode_switch", "insert_after_yank", "copy_last_mark_range_offset",
           "highlight_word_and_matches_on_double_click", "draw_bold_text_with_bright_colors",
           "slow_scrolling_time", "vi_mode_highlight_timeout", "vi_mode_scrolloff"})
  @@ Texts({"wm_class", "colors"})
  @@ [mouse |-> <<Leaf("scalar", "hide_while_typing")>>, margins |-> Leaves("scalar", <<"horizontal", "vertical">>),
      terminal_size |-> Leaves("scalar", <<"lines", "columns">>), terminal_id |-> <<Leaf("vttype", "terminal_id")>>]
ReadHistory == [history |-> Leaves("scalar", <<"limit", "scroll_multiplier", "auto_scroll_on_update">>)]
ReadScrollbar == [scrollbar |-> <<Leaf("scrollbar", "position"), Leaf("scalar", "hide_in_alt_screen")>>]
ReadBell == [bell |-> <<Leaf("scalar", "alert"), Leaf("text", "sound"), Leaf("scalar", "volume")>>]
ReadPermissions ==
  [permissions |-> Leaves("permission", <<"capture_buffer", "change_font", "display_host_writable_statusline">>)]
\* The key of the shaping engine is looked up with a dot, not as a nested entry.
ReadFonts ==
  [font |-> <<Leaf("size", "size"), Leaf("locator", "locator"), <<"text_shaping.engine", "engine", "engine">>,
              Leaf("scalar", "builtin_box_drawing"), Leaf("rendermode", "render_mode"),
              <<"regular/family", "family", "text">>, <<"regular/weight", "weight", "weight">>,
              <<"regular/slant", "slant", "slant">>, <<"regular/features", "features", "append">>,
              Leaf("regular", "bold"), Leaf("regular", "italic"), Leaf("regular", "bold_italic"),
              Leaf("text", "emoji"), Leaf("reset", "strict_spacing")>>]
ReadCursor == [s \in CursorSections |-> <<Leaf("shape", "shape"), Leaf("blinking", "blinking"),
                                          Leaf("scalar", "blinking_interval")>>]
ReadStatus ==
  [status_line |-> <<Leaf("edge", "position"), Leaf("scalar", "sync_to_window_title"),
                     Leaf("display", "display"), <<"indicator/left", "left", "text">>,
                     <<"indicator/middle", "middle", "text">>, <<"indicator/right", "right", "text">>>>]
ReadBackground == [background |-> Leaves("scalar", <<"opacity", "blur">>)]
ReadHyperlink == [hyperlink_decoration |-> Leaves("decorator", <<"normal", "hover">>)]
ReadRenderer ==
  [renderer |-> Append(Leaves("scalar", <<"tile_direct_mapping", "tile_hashtable_slots", "tile_cache_count">>),
                       Leaf("backend", "backend"))]
ReadImages == [images |-> Leaves("scalar", <<"sixel_scrolling", "sixel_register_count">>)
                          \o Leaves("reset", <<"max_width", "max_height">>)]
ReadGlobal ==
  Scalars({"read_buffer_size", "pty_buffer_size", "live_config", "early_exit_threshold",
           "spawn_new_process", "reflow_on_resize"})
  @@ Texts({"platform_plugin", "default_profile", "word_delimiters", "extended_word_delimiters"})
  @@ [s \in {"bypass_mouse_protocol_modifier", "mouse_block_selection_modifier"} |-> <<Leaf("modifier", s)>>]
  @@ [on_mouse_select |-> <<Leaf("selection", "on_mouse_select")>>]
\* The section is looked up under the name vi_mode_cursosrline, which no template has.
ReadHighlight == [s \in DOMAIN HighlightTemplates \ {"vi_mode_cursorline"} |->
                    <<Leaf("text", "foreground"), Leaf("scalar", "foreground_alpha"),
                      Leaf("text", "background"), Leaf("scalar", "background_alpha")>>]
ReadScheme ==
  [default |-> Leaves("text", SchemeTemplates.default),
   indicator_statusline |-> <<<<"default/foreground", "inactive/foreground", "text">>,
                              <<"default/background", "inactive/background", "text">>,
                              <<"inactive/foreground", "inactive/foreground", "text">>,
                              <<"inactive/background", "inactive/background", "text">>>>,
   input_method_editor |-> Leaves("text", <<"foreground", "background">>)]
ReadPalette == [normal |-> Leaves("text", EightColors), bright |-> Leaves("text", EightColors)]
Reads == ReadShell @@ ReadSsh @@ ReadWindow @@ ReadHistory @@ ReadScrollbar @@ ReadBell @@ ReadPermissions @@ ReadFonts
  @@ ReadCursor @@ ReadStatus @@ ReadBackground @@ ReadHyperlink @@ ReadRenderer @@ ReadImages @@ ReadGlobal
  @@ ReadHighlight @@ ReadScheme @@ ReadPalette
LeavesOf(s) == IF s \in DOMAIN Reads THEN Reads[s] ELSE <<>>

(***************************************************************************)
(* Names of enumerations: as written, and as read.  Where the reader folds *)
(* the case, names are in lower case.                                      *)
(***************************************************************************)
Same(names) == [n \in names |-> n]
Decorators == {"underline", "dotted-underline", "double-underline", "curly-underline",
               "dashed-underline", "overline", "crossed-out", "framed", "encircle"}
VTNames == {"VT100", "VT220", "VT525"}
WeightNames == [thin |-> "Thin", extra_light |-> "ExtraLight", normal |-> "Regular", bold |-> "Bold"]
SlantNames == [normal |-> "Normal", italic |-> "Italic", oblique |-> "Oblique"]
RenderModeNames == Same({"bitmap", "gray", "light", "lcd", "color"})
EngineNames == [coretext |-> "coretext", dwrite |-> "directwrite", openshaper |-> "harfbuzz"]
LocatorNames == Same({"native", "mock"})
DisplayNames == [none |-> "none", indicator |-> "indicator", hostwritable |-> "host writable"]
SelectionNames == [nothing |-> "waiting", copytoclipboard |-> "copytoclipboard",
                   copytoselectionclipboard |-> "copytoselectionclipboard"]
Shapes == {"block", "rectangle", "underscore", "bar"}
EnumWritten ==
  [vttype |-> Same(VTNames), weight |-> WeightNames, slant |-> SlantNames, rendermode |-> RenderModeNames,
   engine |-> EngineNames, locator |-> LocatorNames, display |-> DisplayNames, selection |-> SelectionNames,
   decorator |-> Same(Decorators), shape |-> Same(Shapes), scrollbar |-> Same({"hidden", "left", "right"}),
   permission |-> Same({"allow", "deny", "ask"}), blinking |-> Same({"true", "false"}),
   edge |-> Same({"top", "bottom"}), backend |-> Same({"default", "opengl", "software"}),
   modifier |-> Same({"alt", "control", "shift", "super", "meta"})]
\* Upper-case names compared with the text in lower case: none is ever recognized.
ReadVTType == [n \in {} |-> n]
ReadWeight == [thin |-> "thin", light |-> "light", normal |-> "normal", bold |-> "bold"]
ReadSlant == [thin |-> "normal", italic |-> "italic", oblique |-> "oblique"]
ReadRenderMode == Same({"lcd", "light", "gray"}) @@ [monochrome |-> "bitmap"]
ReadEngine == [dwrite |-> "dwrite", directwrite |-> "dwrite", core |-> "coretext", coretext |-> "coretext",
               open |-> "openshaper", openshaper |-> "openshaper", native |-> "openshaper"]
ReadLocator == [native |-> "native", fontconfig |-> "native", mock |-> "mock"]
ReadDisplay == Same({"indicator", "none"})
ReadSelection == Same({"nothing", "copytoclipboard", "copytoselectionclipboard"}) @@ [waiting |-> "nothing"]
ReadDecorator == Same(Decorators)
ReadShape == Same(Shapes)
ReadScrollbarPosition == Same({"hidden", "left", "right"})
ReadPermission == Same({"allow", "deny", "ask"})
ReadBlinking == Same({"true", "false"})
ReadEdge == Same({"top", "bottom"})
ReadBackend == Same({"opengl", "software"})
ReadModifier == [alt |-> "alt", control |-> "control", shift |-> "shift", super |-> "super", meta |-> "super"]
EnumRead ==
  [vttype |-> ReadVTType, weight |-> ReadWeight, slant |-> ReadSlant, rendermode |-> ReadRenderMode,
   engine |-> ReadEngine, locator |-> ReadLocator, display |-> ReadDisplay, selection |-> ReadSelection,
   decorator |-> ReadDecorator, shape |-> ReadShape, scrollbar |-> ReadScrollbarPosition,
   permission |-> ReadPermission, blinking |-> ReadBlinking, edge |-> ReadEdge, backend |-> ReadBackend,
   modifier |-> ReadModifier]
Enums == DOMAIN EnumWritten

(***************************************************************************)
(* Configurations and files.                                               *)
(***************************************************************************)
Members(s) == ({Arguments(s)[i] : i \in 1 .. Len(Arguments(s))} \ {"other"})
              \cup {LeavesOf(s)[i][2] : i \in 1 .. Len(LeavesOf(s))}
KindOf(s, m) == IF \E i \in 1 .. Len(LeavesOf(s)) : LeavesOf(s)[i][2] = m
                THEN LeavesOf(s)[CHOOSE i \in 1 .. Len(LeavesOf(s)) : LeavesOf(s)[i][2] = m][3] ELSE "text"
EnumDefault == [vttype |-> "VT525", weight |-> "normal", slant |-> "normal", rendermode |-> "gray",
  engine |-> "openshaper", locator |-> "native", display |-> "indicator",
  selection |-> "copytoselectionclipboard", shape |-> "block", scrollbar |-> "hidden",
  permission |-> "ask", blinking |-> "false", edge |-> "bottom", backend |-> "default"]
InitialValue(s, m) ==
  CASE s = "cursor" /\ m = "shape" -> "bar"
    [] m = "normal" /\ s = "hyperlink_decoration" -> "dotted-underline"
    [] m = "hover" -> "underline"
    [] m = "bypass_mouse_protocol_modifier" -> "shift"
    [] m = "mouse_block_selection_modifier" -> "control"
    [] KindOf(s, m) \in DOMAIN EnumDefault -> EnumDefault[KindOf(s, m)]
    [] OTHER -> "default"
DefaultConfig == [s \in Sections |-> [m \in Members(s) |-> InitialValue(s, m)]]

WrittenText(s, m, value) == IF KindOf(s, m) \in Enums THEN EnumWritten[KindOf(s, m)][value] ELSE value
WriteSection(s, members) ==
  LET keys == Templates[s]
      At(k) == CHOOSE i \in 1 .. Len(keys) : keys[i] = k
      filled == [k \in {keys[i] : i \in 1 .. Len(keys)} |->
                   LET m == Arguments(s)[At(k)]
                   IN  IF m \in DOMAIN members THEN WrittenText(s, m, members[m]) ELSE m]
  IN  IF s \in DOMAIN FixedText THEN FixedText[s] @@ filled ELSE filled
CreateForGlobal(c) == [s \in DOMAIN GlobalTemplates \cup DOMAIN ImageTemplates |-> WriteSection(s, c[s])]
CreateForProfile(c) == [s \in DOMAIN ProfileTemplates |-> WriteSection(s, c[s])]
CreateForColorScheme(c) ==
  [s \in DOMAIN HighlightTemplates \cup DOMAIN SchemeTemplates |-> WriteSection(s, c[s])]
CreateString(c) == CreateForGlobal(c) @@ CreateForProfile(c) @@ CreateForColorScheme(c)
EmptyFile == [s \in Sections |-> [k \in {} |-> k]]

(***************************************************************************)
(* Loading.                                                                *)
(***************************************************************************)
\* A size below the minimum becomes the minimum.
ReadFontSize(text) == IF text = "small" THEN "minimum" ELSE text
Throws(kind) == kind \in {"scalar", "reset", "size"}
ReadLeaf(members, given, leaf) ==
  LET m == leaf[2]
      kind == leaf[3]
      text == given[leaf[1]]
  IN  IF leaf[1] \notin DOMAIN given
      THEN CASE kind = "reset" -> [members EXCEPT ![m] = "default"]
             [] kind = "regular" -> [members EXCEPT ![m] = members.family]
             [] OTHER -> members
      ELSE CASE kind \in Enums -> IF text \in DOMAIN EnumRead[kind]
                                  THEN [members EXCEPT ![m] = EnumRead[kind][text]] ELSE members
             [] kind = "append" -> [members EXCEPT ![m] = IF @ = "default" THEN text
                                                          ELSE IF text = "default" THEN @ ELSE "twice"]
             [] kind = "size" -> [members EXCEPT ![m] = ReadFontSize(text)]
             [] OTHER -> [members EXCEPT ![m] = text]

\* A value that cannot be converted throws: the leaves before it are read, those after it are not.
ReadSection(members, given, leaves) ==
  LET upTo[i \in 0 .. Len(leaves)] ==
        IF i = 0 THEN [members |-> members, ok |-> TRUE]
        ELSE LET r == upTo[i - 1]
                 bad == leaves[i][1] \in DOMAIN given /\ given[leaves[i][1]] = "bad" /\ Throws(leaves[i][3])
             IN  IF ~r.ok THEN r
                 ELSE IF bad THEN [r EXCEPT !.ok = FALSE]
                 ELSE [r EXCEPT !.members = ReadLeaf(@, given, leaves[i])]
  IN  IF DOMAIN given = {} THEN [members |-> members, ok |-> TRUE] ELSE upTo[Len(leaves)]

SchemeOrder ==
  <<"default", "vi_mode_highlight", "vi_mode_cursorline", "selection", "search_highlight",
    "search_highlight_focused", "word_highlight_current", "word_highlight_other",
    "input_method_editor", "indicator_statusline", "normal", "bright">>
SchemeSections == DOMAIN SchemeTemplates \cup DOMAIN HighlightTemplates
\* Built-in schemes go before one of the same name in the file; "contour" is the initial palette.
PredefinedPalettes ==
  [contour |-> {}, monokai |-> {"default", "normal", "bright"}]
\* Files of the colorschemes directory: one that can be read, and one with a bad value in it.
SchemeFile == [s \in SchemeSections |-> [k \in {LeavesOf(s)[i][1] : i \in 1 .. Len(LeavesOf(s))} |-> "other"]]
DirectorySchemes == [outside |-> SchemeFile,
                     spoiled |-> [SchemeFile EXCEPT !["selection"]["foreground_alpha"] = "bad"]]
\* A palette is a built-in one, or starts from the initial colours; a file without "colors" leaves it alone.
BuiltIn(name) == IF name \in DOMAIN PredefinedPalettes THEN PredefinedPalettes[name] ELSE {}
ReadColors(cfg, given) ==
  IF DOMAIN given = {} THEN cfg
  ELSE [s \in Sections |-> CASE s = "colors" -> given
                             [] s \in BuiltIn(given.colors) -> [m \in DOMAIN cfg[s] |-> given.colors]
                             [] s \in SchemeSections \ BuiltIn(given.colors) -> DefaultConfig[s]
                             [] OTHER -> cfg[s]]
\* Where a section is read from.  The scheme that is named is in the file (doc; c.colorschemes is
\* never loaded), in the directory, or nowhere.
ReadPaletteNamed(name, doc) ==
  CASE name = "default" -> doc
    [] name \in DOMAIN conf.directory -> conf.directory[name]
    [] OTHER -> EmptyFile
SourceOf(s, file, doc) ==
  IF s \notin SchemeSections THEN file[s]
  ELSE IF DOMAIN file.colors = {} THEN <<>>
  ELSE ReadPaletteNamed(file.colors.colors, doc)[s]

\* Sections read through a ConfigEntry inside a profile catch what they throw.  The scheme is
\* read inside the entry "colors": what one of its sections throws ends the reading of them all.
GuardedNowhere(s) == FALSE
Guarded(s) == s \in (DOMAIN ProfileTemplates \cup SchemeSections) \ CursorSections
LoadInOrder(order, cfg, file, doc) ==
  LET upTo[i \in 0 .. Len(order)] ==
        IF i = 0 THEN [cfg |-> cfg, ok |-> TRUE, skip |-> {}]
        ELSE LET before == upTo[i - 1]
                 s == order[i]
                 r == ReadSection(before.cfg[s], SourceOf(s, file, doc), LeavesOf(s))
             IN  CASE ~before.ok \/ s \in before.skip -> before
                   [] before.ok /\ s = "colors" -> [before EXCEPT !.cfg = ReadColors(@, file.colors)]
                   [] OTHER -> [cfg |-> [before.cfg EXCEPT ![s] = r.members], ok |-> r.ok \/ Guarded(s),
                                skip |-> IF r.ok \/ s \notin SchemeSections THEN before.skip
                                         ELSE SchemeSections]
  IN  upTo[Len(order)]

GlobalOrder ==
  <<"platform_plugin", "default_profile", "renderer", "word_delimiters", "extended_word_delimiters",
    "read_buffer_size", "pty_buffer_size", "images", "live_config", "early_exit_threshold",
    "spawn_new_process", "reflow_on_resize", "bypass_mouse_protocol_modifier", "on_mouse_select",
    "mouse_block_selection_modifier">>
ProfileOrder ==
  <<"ssh", "shell", "escape_sandbox", "copy_last_mark_range_offset", "show_title_bar",
    "size_indicator_on_resize", "fullscreen", "maximized", "search_mode_switch", "insert_after_yank",
    "bell", "margins", "terminal_id", "slow_scrolling_time", "terminal_size", "history", "scrollbar",
    "mouse", "permissions", "highlight_word_and_matches_on_double_click", "font",
    "draw_bold_text_with_bright_colors", "cursor", "normal_mode/cursor", "visual_mode/cursor",
    "vi_mode_highlight_timeout", "vi_mode_scrolloff", "status_line", "background", "colors">>
  \o SchemeOrder \o <<"hyperlink_decoration">>

\* The default profile first; every other profile starts as a copy of it.
ShellOrSsh(file) == IF DOMAIN file.ssh = {} THEN file ELSE [file EXCEPT !.shell = EmptyFile.shell]
LoadProfiles(cfg, file, other) ==
  LET first == LoadInOrder(ProfileOrder, cfg, ShellOrSsh(file), file)
      second == LoadInOrder(ProfileOrder, first.cfg, ShellOrSsh(other), file)
  IN  [main |-> first.cfg, second |-> IF first.ok THEN second.cfg ELSE cfg, ok |-> first.ok /\ second.ok]
LoadConfig(file, other) ==
  LET global == LoadInOrder(GlobalOrder, DefaultConfig, file, file)
      cfg == [global.cfg EXCEPT !["platform_plugin"]["platform_plugin"] = IF @ = "default" THEN "none" ELSE @]
  IN  IF global.ok THEN LoadProfiles(cfg, file, other) ELSE [main |-> cfg, second |-> cfg, ok |-> FALSE]

(***************************************************************************)
(* What a user may do: save a changed configuration, break one value, or   *)
(* add a profile with one entry of its own; then the file is loaded.       *)
(***************************************************************************)
AllOther == [s \in Sections |-> [m \in Members(s) |->
               IF s = "colors" \/ KindOf(s, m) \in Enums THEN InitialValue(s, m) ELSE "other"]]
Values(s, m) ==
  CASE s = "colors" -> {"default", "other"} \cup DOMAIN PredefinedPalettes \cup DOMAIN DirectorySchemes
    [] KindOf(s, m) = "size" -> {"default", "other", "small"}
    [] KindOf(s, m) \in Enums -> DOMAIN EnumWritten[KindOf(s, m)]
    [] OTHER -> {"default", "other"}

NoResult == [main |-> DefaultConfig, second |-> DefaultConfig, ok |-> TRUE]
ConfigurationInit ==
  conf = [phase |-> "new", did |-> "none", section |-> "none", key |-> "none", value |-> "none",
          wanted |-> DefaultConfig, file |-> EmptyFile, other |-> EmptyFile, directory |-> DirectorySchemes, result |-> NoResult]

SaveChanged ==
  \E s \in Sections : \E m \in Members(s) : \E v \in Values(s, m) :
     LET c == [DefaultConfig EXCEPT ![s][m] = v]
     IN  conf' = [conf EXCEPT !.phase = "file", !.did = "saved", !.section = s, !.key = m, !.value = v,
                    !.wanted = c, !.file = CreateString(c)]
BreakValue ==
  \E s \in Sections : \E k \in DOMAIN CreateString(AllOther)[s] :
     conf' = [conf EXCEPT !.phase = "file", !.did = "broke", !.section = s, !.key = k,
                !.wanted = AllOther, !.file = [CreateString(AllOther) EXCEPT ![s][k] = "bad"]]
AddProfile ==
  \E s \in DOMAIN ProfileTemplates : \E i \in 1 .. Len(LeavesOf(s)) :
     \E main \in {DefaultConfig, AllOther} :
        /\ LeavesOf(s)[i][3] \notin Enums
        /\ conf' = [conf EXCEPT !.phase = "file", !.did = "profile", !.section = s,
                      !.key = LeavesOf(s)[i][2], !.value = "other", !.wanted = main,
                      !.file = CreateString(main),
                      !.other = [EmptyFile EXCEPT ![s] = (LeavesOf(s)[i][1] :> "other")]]
CopyExample ==
  \E s \in DOMAIN WebExamples : \E i \in 1 .. Len(WebExamples[s]) :
     LET k == WebExamples[s][i]
     IN  conf' = [conf EXCEPT !.phase = "file", !.did = "example", !.section = s, !.key = k,
                    !.file = [EmptyFile EXCEPT ![s] = (k :> "other")]]
LoadConfigFromFile ==
  conf' = [conf EXCEPT !.phase = "loaded", !.result = LoadConfig(conf.file, conf.other)]

ConfigurationNext ==
  \/ conf.phase = "new" /\ (SaveChanged \/ BreakValue \/ AddProfile \/ CopyExample)
  \/ conf.phase = "file" /\ LoadConfigFromFile

(***************************************************************************)
(* Properties.                                                             *)
(***************************************************************************)
\* Members that a saved file does not bring back, and why: never read, read under
\* another name, written as fixed text, or with names the reader does not know.
Lossy(s, m) ==
  \/ <<s, m>> \in {<<"font", "engine">>, <<"font", "weight">>, <<"font", "slant">>,
                    <<"font", "strict_spacing">>, <<"bell", "alert">>}
  \/ s \in {"terminal_id", "option_as_alt", "vi_mode_cursorline", "ssh"}
  \/ s = "indicator_statusline" /\ m \in {"insert/foreground", "insert/background"}

\* A configuration that is saved and loaded again comes back, apart from the lossy
\* members, the single names the reader does not know and a font size below the minimum,
\* which becomes the minimum.  The scheme "default" comes back as the palette of a profile
\* that names it.
SavedIsLoaded ==
  conf.phase = "loaded" /\ conf.did = "saved" =>
     \A s \in Sections : \A m \in Members(s) :
        \/ conf.result.main[s][m] = conf.wanted[s][m]
        \/ Lossy(s, m)
        \/ s = "font" /\ m \in {"bold", "italic", "bold_italic"}
        \/ <<m, conf.wanted[s][m]>> \in {<<"render_mode", "bitmap">>, <<"render_mode", "color">>,
               <<"display", "hostwritable">>}
        \/ conf.wanted[s][m] = "meta"
        \/ m = "platform_plugin" /\ conf.wanted[s][m] = "default"
        \/ s \in SchemeSections /\ conf.wanted.colors.colors # "default"
        \/ m = "size" /\ conf.wanted[s][m] = "small" /\ conf.result.main[s][m] = "minimum"

\* Every key an example of the documentation shows is read into a member of the same
\* section.  Not read: dpi_scale, the nested shaping engine and option_as_alt; names
\* of enumerations are checked by SavedIsLoaded.
ExampleIsRead ==
  conf.phase = "loaded" /\ conf.did = "example"
  /\ conf.key \notin {"dpi_scale", "text_shaping/engine", "option_as_alt"} =>
     \E i \in 1 .. Len(LeavesOf(conf.section)) :
        LET leaf == LeavesOf(conf.section)[i]
        IN  leaf[1] = conf.key /\ (leaf[3] \in Enums \/ conf.result.main[conf.section][leaf[2]] = "other")

\* A value in a profile or in its colour scheme that cannot be converted changes nothing
\* outside its section, the colours being one section, and loading goes on to the end.
EntryOf(s) == IF s \in SchemeSections \cup {"colors"} THEN SchemeSections \cup {"colors"} ELSE {s}
BadValueIsLocal ==
  conf.phase = "loaded" /\ conf.did = "broke"
  /\ conf.section \in (DOMAIN ProfileTemplates \cup SchemeSections) \ CursorSections =>
     /\ conf.result.ok
     /\ LET good == LoadConfig(CreateString(conf.wanted), EmptyFile).main
        IN  \A s \in Sections \ EntryOf(conf.section) : conf.result.main[s] = good[s]

\* A profile takes from the default profile what it does not set itself.  Left out are
\* the font's derived members, which any font section computes anew.
ProfileInherits ==
  conf.phase = "loaded" /\ conf.did = "profile" =>
     \A s \in DOMAIN ProfileTemplates : \A m \in Members(s) :
        \/ <<s, m>> = <<conf.section, conf.key>>
        \/ s = "font" /\ conf.section = "font" /\ m \in {"bold", "italic", "bold_italic", "strict_spacing"}
        \/ conf.result.second[s][m] = conf.result.main[s][m]

\* Every written setting is loaded again.
EveryMemberSurvives ==
  conf.phase = "loaded" /\ conf.did = "saved" =>
     conf.result.main[conf.section][conf.key] = conf.wanted[conf.section][conf.key]

\* "Failed, default value will be used" (YAMLConfigReader::loadFromEntry): only the bad
\* entry falls back to its default.
OnlyBadEntryDefaults ==
  conf.phase = "loaded" /\ conf.did = "broke" => conf.result.ok

\* A bad value in one section of a colour scheme leaves the other colours alone.
BadColorIsLocal ==
  conf.phase = "loaded" /\ conf.did = "broke" /\ conf.section \in SchemeSections =>
     LET good == LoadConfig(CreateString(conf.wanted), EmptyFile).main
     IN  \A s \in SchemeSections \ {conf.section} : conf.result.main[s] = good[s]

\* Every documented key has a member of its own.
DocumentedKeyHasMember ==
  conf.phase = "loaded" /\ conf.did = "example" =>
     \E i \in 1 .. Len(LeavesOf(conf.section)) :
        LeavesOf(conf.section)[i][1] = conf.key
        /\ \A j \in 1 .. Len(LeavesOf(conf.section)) :
              LeavesOf(conf.section)[j][2] = LeavesOf(conf.section)[i][2] => i = j

\* The entry a profile sets replaces the inherited one.
ProfileOverrides ==
  conf.phase = "loaded" /\ conf.did = "profile" => conf.result.second[conf.section][conf.key] = conf.value
=============================================================================
