----------------------------- MODULE OwnerPages -----------------------------
(***************************************************************************)
(* The owner console (src/frontend/src/pages/OwnerPortal) as PageRows.     *)
(* Inquiries compare a sequence number before they show a list, poll it    *)
(* silently and keep a summary beside it (the figure); organizations live  *)
(* in a context the views share; the rest loads and pages.                 *)
(***************************************************************************)
EXTENDS PageRows

(* InquiriesView.                                                          *)
InquiriesLoad == Guarded

(* The timer's, and the button "Refresh".                                  *)
SilentLoads == {{"latest", "silent"}, Figure}

SilentRefresh == At("inquiries") /\ Reload(SilentLoads, query)

RefreshSummary == At("inquiries") /\ Reload({Figure}, query)

SetFilter == At("inquiries") /\ Reload({InquiriesLoad}, OtherQuery)

(* The detail of an inquiry stays open while its list is loaded again.     *)
OffersInquiry(r) == At("inquiries") /\ r \in ShownIds

PatchInquiry(r) ==
  OffersInquiry(r) /\ UpdateAhead(r, Flipped(r), "none", "replace", Figure)

InquiryHandleDelete(r) ==
  OffersInquiry(r) /\ Idle("save") /\ Delete(r, "save", "drop", Figure)

Inquiries ==
  \/ Retry("inquiries", {InquiriesLoad})
  \/ SilentRefresh \/ RefreshSummary \/ SetFilter
  \/ \E r \in Ids : PatchInquiry(r) \/ InquiryHandleDelete(r)

-----------------------------------------------------------------------------
(* OrganizationsView.  1: active, 2: suspended.  The list stays up while   *)
(* reloadOrgs runs; OnboardDialog runs it once the organization exists.    *)
OrganizationsLoad == {}

OffersOrganization(r) == Listed("organizations", r)

OrganizationToggleStatus(r) ==
  OffersOrganization(r) /\ busy["row"] # r /\ Update(r, Flipped(r), "row", "replace", NoLoad)

HandleDeleteOrganization(r) ==
  /\ OffersOrganization(r)
  /\ ShownRow(r).ver = 2
  /\ busy["save"] # r
  /\ Delete(r, "save", "drop", NoLoad)

OnboardOrganization ==
  At("organizations") /\ Idle("create") /\ Create("create", "keep", OrganizationsLoad)

Organizations ==
  \/ Retry("organizations", {OrganizationsLoad})
  \/ OnboardOrganization
  \/ \E r \in Ids : OrganizationToggleStatus(r) \/ HandleDeleteOrganization(r)

-----------------------------------------------------------------------------
(* AnnouncementsView.                                                      *)
AnnouncementsLoad == Plain

OffersAnnouncementForm == At("announcements") /\ Idle("create")

OffersAnnouncement(r) == Listed("announcements", r) /\ busy["row"] # r

HandleCreateAnnouncement == OffersAnnouncementForm /\ Create("create", "prepend", NoLoad)

HandleToggleAnnouncementActive(r) ==
  OffersAnnouncement(r) /\ UpdateAhead(r, Flipped(r), "row", "replace", NoLoad)

HandleDeleteAnnouncement(r) == OffersAnnouncement(r) /\ Delete(r, "row", "drop", NoLoad)

Announcements ==
  \/ Retry("announcements", {AnnouncementsLoad})
  \/ HandleCreateAnnouncement
  \/ \E r \in Ids : HandleToggleAnnouncementActive(r) \/ HandleDeleteAnnouncement(r)

-----------------------------------------------------------------------------
(* AuditView, HealthView, OverviewView.                                    *)
OwnerAuditLoad == Plain

OwnerAuditFilter == At("owneraudit") /\ Reload({OwnerAuditLoad}, OtherQuery)

LoadAudit == Ready("owneraudit") /\ Reload({OwnerAuditLoad \cup {"url"}}, OtherQuery)

OwnerAudit == Retry("owneraudit", {OwnerAuditLoad}) \/ OwnerAuditFilter \/ LoadAudit

ErrorsLoad == {"blank", "url"}

LoadErrors == Ready("errors") /\ Reload({ErrorsLoad}, OtherQuery)

(* "Refresh" loads the errors and the health again, whatever is in flight. *)
HealthRefresh == page \in {"errors", "health"} /\ Reload({ErrorsLoad}, query)

Health == Retry("errors", {ErrorsLoad}) \/ Retry("health", {Plain}) \/ LoadErrors \/ HealthRefresh

OverviewLoads == {Plain, Figure}

Overview == Retry("overview", {Plain})

-----------------------------------------------------------------------------
OwnerLoads ==
  [inquiries |-> {InquiriesLoad, Figure}, organizations |-> {OrganizationsLoad},
   announcements |-> {AnnouncementsLoad}, owneraudit |-> {OwnerAuditLoad},
   errors |-> {ErrorsLoad}, health |-> {Plain}, overview |-> OverviewLoads]

OwnerStep ==
  Inquiries \/ Organizations \/ Announcements \/ OwnerAudit \/ Health \/ Overview

=============================================================================
